---- MODULE Spec2Model ----
(***************************************************************************)
(* ChemBot backend: the retry executor (utils/rate_limiter.py), the answer *)
(* cache (cache/redis_cache.py) and the question orchestrator              *)
(* (chatbot/chatbot_engine.py, rag/query_engine.py).                       *)
(*                                                                         *)
(* Python strings are modelled as sequences of one-character strings, so   *)
(* that lower(), strip(), concatenation and substring tests are computed.  *)
(* The event loop is cooperative: the code between two awaits is one step. *)
(***************************************************************************)
EXTENDS Integers, Sequences, FiniteSets, TLC

(***************************************************************************)
(* Bounds of the model                                                     *)
(***************************************************************************)
NumTasks == 2

MaxConcurrent == 1

MaxRetries == 2

None == "None"

(***************************************************************************)
(* Strings                                                                 *)
(***************************************************************************)
UpperChars == <<"A","B","C","D","E","F","G","H","I","J","K","L","M","N","O","P","Q","R","S","T","U","V","W","X","Y","Z">>

LowerChars == <<"a","b","c","d","e","f","g","h","i","j","k","l","m","n","o","p","q","r","s","t","u","v","w","x","y","z">>

\* str.lower() on one character
LowerChar(c) ==
    IF \E i \in 1..Len(UpperChars) : UpperChars[i] = c
    THEN LowerChars[CHOOSE i \in 1..Len(UpperChars) : UpperChars[i] = c]
    ELSE c

\* str.lower()
Lower(s) == [i \in 1..Len(s) |-> LowerChar(s[i])]

\* Python's "p in s" on strings
Contains(s, p) ==
    \E i \in 1..(Len(s) - Len(p) + 1) : SubSeq(s, i, i + Len(p) - 1) = p

(***************************************************************************)
(* Errors an operation can raise: the class decides which except clause of *)
(* execute_with_retry handles it, the text is str(error).                  *)
(***************************************************************************)
ErrorClasses == {"RateLimitError", "APIError", "Exception"}

MsgTimeout == <<"T","i","m","e","o","u","t">>

MsgTransient == <<"T","r","a","n","s","i","e","n","t"," ","e","r","r","o","r">>

ErrorTexts == {MsgTimeout, MsgTransient}

Errors == [cls : ErrorClasses, msg : ErrorTexts]

retryable_patterns ==
    << <<"t","i","m","e","o","u","t">>,
       <<"c","o","n","n","e","c","t","i","o","n">>,
       <<"5","0","3">>,
       <<"5","0","2">>,
       <<"5","0","0">>,
       <<"4","2","9">>,
       <<"s","e","r","v","e","r"," ","e","r","r","o","r">> >>

\* RateLimiter._is_retryable_error
IsRetryableError(error) ==
    LET error_str == Lower(error.msg)
    IN  \E k \in 1..Len(retryable_patterns) : Contains(error_str, retryable_patterns[k])

\* The errors execute_with_retry treats as retryable: litellm.RateLimitError,
\* and litellm.APIError when _is_retryable_error accepts it
RetryableError(e) ==
    \/ e.cls = "RateLimitError"
    \/ e.cls = "APIError" /\ IsRetryableError(e)

\* last_exception = None
NoError == [cls |-> "None", msg |-> << >>]

\* The value a successful operation returns
OpValue == "success"

\* A call that has neither returned nor raised yet
Pending == [kind |-> "pending"]

(***************************************************************************)
(* State of the retry executor                                             *)
(***************************************************************************)
VARIABLES
    max_concurrent,      \* RateLimiter.max_concurrent
    max_retries,         \* RateLimiter.max_retries
    sem_value,           \* asyncio.Semaphore._value
    sem_waiters,         \* asyncio.Semaphore._waiters, in arrival order
    total_requests,
    successful_requests,
    failed_requests,
    retried_requests,
    pc,                  \* where each execute_with_retry call stands
    attempt,             \* the loop variable of each call
    last_exception,      \* the local last_exception of each call
    outcome,             \* what each call returned or raised
    op_log,              \* history of each call's operation: invocations
                         \* started, invocations that raised, and whether
                         \* every error raised so far was a retryable one
    counted              \* the counter increments each call has made

rlVars == <<max_concurrent, max_retries, sem_value, sem_waiters,
            total_requests, successful_requests, failed_requests,
            retried_requests, pc, attempt, last_exception, outcome,
            op_log, counted>>


Tasks == 1..NumTasks

\* RateLimiter.__init__
RateLimiterInit(mc, mr) ==
    /\ max_concurrent = mc
    /\ max_retries = mr
    /\ sem_value = mc
    /\ sem_waiters = << >>
    /\ total_requests = 0
    /\ successful_requests = 0
    /\ failed_requests = 0
    /\ retried_requests = 0

TasksInit ==
    /\ pc = [t \in Tasks |-> "idle"]
    /\ attempt = [t \in Tasks |-> 0]
    /\ last_exception = [t \in Tasks |-> NoError]
    /\ outcome = [t \in Tasks |-> Pending]
    /\ op_log = [t \in Tasks |-> [invoked |-> 0, failed |-> 0, retryable_only |-> TRUE]]
    /\ counted = [t \in Tasks |-> [succ |-> 0, fail |-> 0, retr |-> 0]]

RLInit ==
    /\ \E mc \in 1..MaxConcurrent, mr \in 1..MaxRetries : RateLimiterInit(mc, mr)
    /\ TasksInit

\* The limiter of test_concurrent_request_limiting: max_retries = 1
TestMaxRetries == 1

RLInitFair ==
    /\ \E mc \in 1..MaxConcurrent : RateLimiterInit(mc, TestMaxRetries)
    /\ TasksInit

(***************************************************************************)
(* asyncio.Semaphore                                                       *)
(***************************************************************************)
\* Semaphore.locked(): no permit, or somebody is already queued
SemLocked == sem_value = 0 \/ sem_waiters # << >>

\* The first queued call whose future is still pending, 0 if none
NextPending(waiters, p) ==
    IF \E i \in 1..Len(waiters) : p[waiters[i]] = "waiting"
    THEN waiters[CHOOSE i \in 1..Len(waiters) :
                    /\ p[waiters[i]] = "waiting"
                    /\ \A j \in 1..(i - 1) : p[waiters[j]] # "waiting"]
    ELSE 0

\* EnterSemaphore without the semaphore: the operation is invoked at once
EnterSemaphoreUnbounded(t, p) ==
    /\ sem_value' = sem_value - 1
    /\ sem_waiters' = sem_waiters
    /\ pc' = [p EXCEPT ![t] = "running"]
    /\ op_log' = [op_log EXCEPT ![t].invoked = @ + 1]

\* "async with self.semaphore" entered by call t, then the operation is
\* invoked; p is pc with the position call t leaves
EnterSemaphore(t, p) ==
    IF ~SemLocked
    THEN /\ sem_value' = sem_value - 1
         /\ sem_waiters' = sem_waiters
         /\ pc' = [p EXCEPT ![t] = "running"]
         /\ op_log' = [op_log EXCEPT ![t].invoked = @ + 1]
    ELSE /\ sem_value' = sem_value
         /\ sem_waiters' = Append(sem_waiters, t)
         /\ pc' = [p EXCEPT ![t] = "waiting"]
         /\ op_log' = op_log

\* ExitSemaphore that leaves the "async with" block without release()
ExitSemaphoreKeepsPermit(t, p) ==
    /\ sem_value' = sem_value
    /\ pc' = p

\* ExitSemaphore that gives the permit back without waking a waiter
ExitSemaphoreNoWakeUp(t, p) ==
    /\ sem_value' = sem_value + 1
    /\ pc' = p

\* Semaphore.release() on leaving the "async with" block: the permit goes
\* back and the first pending waiter, if any, is handed it; p is pc with
\* the position call t moves to
ExitSemaphore(t, p) ==
    LET w == NextPending(sem_waiters, p)
    IN  IF w = 0
        THEN /\ sem_value' = sem_value + 1
             /\ pc' = p
        ELSE /\ sem_value' = sem_value
             /\ pc' = [p EXCEPT ![w] = "granted"]

\* "if self._value > 0: self._wake_up_next()": with v permits free, the
\* first pending waiter of the queue, if any, is handed one; p is pc with
\* the position the acting call moves to
WakeUpNext(v, waiters, p) ==
    LET w == NextPending(waiters, p)
    IN  /\ sem_waiters' = waiters
        /\ IF v > 0 /\ w # 0
           THEN /\ sem_value' = v - 1
                /\ pc' = [p EXCEPT ![w] = "granted"]
           ELSE /\ sem_value' = v
                /\ pc' = p

(***************************************************************************)
(* RateLimiter.execute_with_retry                                          *)
(***************************************************************************)
\* The call starts: total_requests += 1 and the first pass of the loop
Submit(t) ==
    /\ pc[t] = "idle"
    /\ total_requests' = total_requests + 1
    /\ attempt' = [attempt EXCEPT ![t] = 0]
    /\ last_exception' = [last_exception EXCEPT ![t] = NoError]
    /\ EnterSemaphore(t, pc)
    /\ UNCHANGED <<max_concurrent, max_retries, successful_requests,
                   failed_requests, retried_requests, outcome, counted>>

\* A queued call whose future was set resumes inside Semaphore.acquire()
\* and invokes its operation
Resume(t) ==
    /\ pc[t] = "granted"
    /\ WakeUpNext(sem_value, SelectSeq(sem_waiters, LAMBDA w : w # t),
                  [pc EXCEPT ![t] = "running"])
    /\ op_log' = [op_log EXCEPT ![t].invoked = @ + 1]
    /\ UNCHANGED <<max_concurrent, max_retries, total_requests,
                   successful_requests, failed_requests, retried_requests,
                   attempt, last_exception, outcome, counted>>

\* The operation returns a value
OpSucceeds(t) ==
    /\ pc[t] = "running"
    /\ successful_requests' = successful_requests + 1
    /\ retried_requests' = IF attempt[t] > 0 THEN retried_requests + 1
                           ELSE retried_requests
    /\ counted' = [counted EXCEPT ![t].succ = @ + 1,
                                  ![t].retr = IF attempt[t] > 0 THEN @ + 1 ELSE @]
    /\ outcome' = [outcome EXCEPT ![t] = [kind |-> "value", value |-> OpValue]]
    /\ ExitSemaphore(t, [pc EXCEPT ![t] = "returned"])
    /\ UNCHANGED <<max_concurrent, max_retries, sem_waiters, total_requests,
                   failed_requests, attempt, last_exception, op_log>>

\* WillRetry with the last retry dropped
WillRetryOneShort(t, e) ==
    CASE e.cls = "RateLimitError" -> attempt[t] < max_retries - 1
      [] e.cls = "APIError"       -> attempt[t] < max_retries - 1 /\ IsRetryableError(e)
      [] OTHER                    -> FALSE

\* Which except clause of execute_with_retry retries error e on this attempt
WillRetry(t, e) ==
    CASE e.cls = "RateLimitError" -> attempt[t] < max_retries
      [] e.cls = "APIError"       -> attempt[t] < max_retries /\ IsRetryableError(e)
      [] OTHER                    -> FALSE

\* OpRaises that swallows the terminal failure: nothing is counted and the
\* call returns no value
OpRaisesSwallowed(t, e) ==
    /\ pc[t] = "running"
    /\ last_exception' = [last_exception EXCEPT ![t] = e]
    /\ op_log' = [op_log EXCEPT ![t].failed = @ + 1,
                                ![t].retryable_only = @ /\ RetryableError(e)]
    /\ IF WillRetry(t, e)
       THEN /\ ExitSemaphore(t, [pc EXCEPT ![t] = "sleeping"])
            /\ UNCHANGED <<failed_requests, counted, outcome>>
       ELSE /\ ExitSemaphore(t, [pc EXCEPT ![t] = "returned"])
            /\ outcome' = [outcome EXCEPT ![t] = [kind |-> "value", value |-> None]]
            /\ UNCHANGED <<failed_requests, counted>>
    /\ UNCHANGED <<max_concurrent, max_retries, sem_waiters, total_requests,
                   successful_requests, retried_requests, attempt>>

\* The operation raises e: the permit is released, then the except clause
\* for e's class either sleeps for the backoff delay or counts a failure
\* and re-raises
OpRaises(t, e) ==
    /\ pc[t] = "running"
    /\ last_exception' = [last_exception EXCEPT ![t] = e]
    /\ op_log' = [op_log EXCEPT ![t].failed = @ + 1,
                                ![t].retryable_only = @ /\ RetryableError(e)]
    /\ IF WillRetry(t, e)
       THEN /\ ExitSemaphore(t, [pc EXCEPT ![t] = "sleeping"])
            /\ UNCHANGED <<failed_requests, counted, outcome>>
       ELSE /\ ExitSemaphore(t, [pc EXCEPT ![t] = "raised"])
            /\ failed_requests' = failed_requests + 1
            /\ counted' = [counted EXCEPT ![t].fail = @ + 1]
            /\ outcome' = [outcome EXCEPT ![t] = [kind |-> "error", error |-> e]]
    /\ UNCHANGED <<max_concurrent, max_retries, sem_waiters, total_requests,
                   successful_requests, retried_requests, attempt>>

\* asyncio.sleep(delay) is over: the next pass of the loop
Retry(t) ==
    /\ pc[t] = "sleeping"
    /\ attempt' = [attempt EXCEPT ![t] = @ + 1]
    /\ EnterSemaphore(t, pc)
    /\ UNCHANGED <<max_concurrent, max_retries, total_requests,
                   successful_requests, failed_requests, retried_requests,
                   last_exception, outcome, counted>>

TaskStep(t) ==
    \/ Submit(t)
    \/ Resume(t)
    \/ OpSucceeds(t)
    \/ \E e \in Errors : OpRaises(t, e)
    \/ Retry(t)

RLNext == \E t \in Tasks : TaskStep(t)

(***************************************************************************)
(* The constructor, cancellation and reset_stats                           *)
(***************************************************************************)
\* settings.LLM_MAX_CONCURRENT_REQUESTS, LLM_MAX_RETRIES, LLM_RETRY_DELAY and
\* LLM_RETRY_BACKOFF; the delay in seconds
LLM_MAX_CONCURRENT_REQUESTS == 5
LLM_MAX_RETRIES == 3
LLM_RETRY_DELAY == 1
LLM_RETRY_BACKOFF == 2

VARIABLES
    retry_delay,         \* RateLimiter.retry_delay
    retry_backoff,       \* RateLimiter.retry_backoff
    limiter_kwargs,      \* the arguments the RateLimiter was constructed with
    reset_in_flight      \* reset_stats was called while a call was in progress

ctorVars == <<retry_delay, retry_backoff, limiter_kwargs, reset_in_flight>>

\* Python's "value or default" for an argument that defaults to None
OrDefault(kwargs, key, default) ==
    IF key \in DOMAIN kwargs /\ kwargs[key] # 0 THEN kwargs[key] ELSE default

\* RateLimiter(**kwargs)
RateLimiterNew(kwargs) ==
    /\ RateLimiterInit(OrDefault(kwargs, "max_concurrent", LLM_MAX_CONCURRENT_REQUESTS),
                       OrDefault(kwargs, "max_retries", LLM_MAX_RETRIES))
    /\ retry_delay = OrDefault(kwargs, "retry_delay", LLM_RETRY_DELAY)
    /\ retry_backoff = OrDefault(kwargs, "retry_backoff", LLM_RETRY_BACKOFF)
    /\ limiter_kwargs = kwargs
    /\ reset_in_flight = FALSE

\* The limiters of the other specifications: max_concurrent and max_retries
\* are supplied
CtorInit ==
    /\ retry_delay = LLM_RETRY_DELAY
    /\ retry_backoff = LLM_RETRY_BACKOFF
    /\ limiter_kwargs = [max_concurrent |-> max_concurrent, max_retries |-> max_retries]
    /\ reset_in_flight = FALSE

\* All four arguments of the constructor, none of them the configured value
Supplied(mc, mr) ==
    [max_concurrent |-> mc, max_retries |-> mr, retry_delay |-> 2, retry_backoff |-> 3]

\* The arguments of the constructor in the model: all four, or the first
\* two with the delays left to the settings, max_retries from 0 on
LimiterKwargs ==
    UNION {{Supplied(mc, mr), [max_concurrent |-> mc, max_retries |-> mr]} :
              mc \in 1..MaxConcurrent, mr \in 0..TestMaxRetries}

CtorInitSupplied ==
    /\ \E kwargs \in LimiterKwargs : RateLimiterNew(kwargs)
    /\ TasksInit

\* The limiter of the calls that are cancelled and reset
LimiterInit ==
    /\ \E mc \in 1..MaxConcurrent : RateLimiterNew(Supplied(mc, TestMaxRetries))
    /\ TasksInit

\* The calls between their first step and their end
InProgress == {t \in Tasks : pc[t] \in {"waiting", "granted", "running", "sleeping"}}

\* The task of call t is cancelled: asyncio.CancelledError is raised at the
\* await the call stands at. It is no Exception, so no except clause of
\* execute_with_retry handles it and no counter changes. A queued call
\* leaves the queue; a call that was handed a permit gives it back; a call
\* inside "async with" releases its permit
Cancel(t) ==
    /\ pc[t] \in {"waiting", "granted", "running", "sleeping"}
    /\ CASE pc[t] = "waiting" ->
                /\ sem_waiters' = SelectSeq(sem_waiters, LAMBDA w : w # t)
                /\ pc' = [pc EXCEPT ![t] = "cancelled"]
                /\ UNCHANGED sem_value
         [] pc[t] = "granted" ->
                WakeUpNext(sem_value + 1, SelectSeq(sem_waiters, LAMBDA w : w # t),
                           [pc EXCEPT ![t] = "cancelled"])
         [] pc[t] = "running" ->
                /\ ExitSemaphore(t, [pc EXCEPT ![t] = "cancelled"])
                /\ UNCHANGED sem_waiters
         [] pc[t] = "sleeping" ->
                /\ pc' = [pc EXCEPT ![t] = "cancelled"]
                /\ UNCHANGED <<sem_value, sem_waiters>>
    /\ outcome' = [outcome EXCEPT ![t] = [kind |-> "cancelled"]]
    /\ UNCHANGED <<max_concurrent, max_retries, total_requests, successful_requests,
                   failed_requests, retried_requests, attempt, last_exception,
                   op_log, counted, retry_delay, retry_backoff, limiter_kwargs,
                   reset_in_flight>>

\* RateLimiter.reset_stats
ResetStats ==
    /\ total_requests' = 0
    /\ successful_requests' = 0
    /\ failed_requests' = 0
    /\ retried_requests' = 0
    /\ reset_in_flight' = (reset_in_flight \/ InProgress # {})
    /\ UNCHANGED <<max_concurrent, max_retries, sem_value, sem_waiters, pc, attempt,
                   last_exception, outcome, op_log, counted, retry_delay,
                   retry_backoff, limiter_kwargs>>

LimiterNext ==
    \/ RLNext /\ UNCHANGED ctorVars
    \/ \E t \in Tasks : Cancel(t)
    \/ ResetStats

(***************************************************************************)
(* Answer cache (cache/redis_cache.py)                                     *)
(***************************************************************************)
\* The characters of the model's strings in ASCII order
AsciiChars == <<" ","\"",",","-","0","1","2","3","4","5","6","7","8","9",":","?","A","B","C","D","E","F","G","H","I","J","K","L","M","N","O","P","Q","R","S","T","U","V","W","X","Y","Z","[","]","_","a","b","c","d","e","f","g","h","i","j","k","l","m","n","o","p","q","r","s","t","u","v","w","x","y","z">>

CharCode(c) == CHOOSE i \in 1..Len(AsciiChars) : AsciiChars[i] = c

\* Python's a < b on strings
RECURSIVE StrLess(_, _)
StrLess(a, b) ==
    IF b = << >> THEN FALSE
    ELSE IF a = << >> THEN TRUE
    ELSE IF a[1] # b[1] THEN CharCode(a[1]) < CharCode(b[1])
    ELSE StrLess(Tail(a), Tail(b))

WhitespaceChars == {" ", "\t", "\n", "\r"}

RECURSIVE LStrip(_)
LStrip(s) ==
    IF s # << >> /\ s[1] \in WhitespaceChars THEN LStrip(Tail(s)) ELSE s

RECURSIVE RStrip(_)
RStrip(s) ==
    IF s # << >> /\ s[Len(s)] \in WhitespaceChars
    THEN RStrip(SubSeq(s, 1, Len(s) - 1))
    ELSE s

\* str.strip()
Strip(s) == RStrip(LStrip(s))

Digits == <<"0","1","2","3","4","5","6","7","8","9">>

\* str(n) for n >= 0
RECURSIVE IntToStr(_)
IntToStr(n) ==
    IF n < 10 THEN <<Digits[n + 1]>>
    ELSE IntToStr(n \div 10) \o <<Digits[(n % 10) + 1]>>

\* Keyword arguments are a sequence of items in the order the caller wrote
\* them; a value is a string or an integer
StrValue(s) == [type |-> "str", str |-> s]

IntValue(n) == [type |-> "int", int |-> n]

\* sorted(kwargs.items()): insertion of one item into a sorted list
RECURSIVE InsertSorted(_, _)
InsertSorted(item, items) ==
    IF items = << >> THEN <<item>>
    ELSE IF StrLess(item.name, items[1].name) THEN <<item>> \o items
    ELSE <<items[1]>> \o InsertSorted(item, Tail(items))

RECURSIVE SortedItems(_)
SortedItems(items) ==
    IF items = << >> THEN << >>
    ELSE InsertSorted(items[1], SortedItems(Tail(items)))

\* json.dumps of a string or an integer
JsonScalar(v) ==
    IF v.type = "str" THEN <<"\"">> \o v.str \o <<"\"">> ELSE IntToStr(v.int)

\* json.dumps of one (name, value) tuple: ["name", value]
JsonItem(item) ==
    <<"[", "\"">> \o item.name \o <<"\"", ",", " ">> \o JsonScalar(item.value) \o <<"]">>

RECURSIVE JsonJoin(_)
JsonJoin(items) ==
    IF Len(items) = 1 THEN JsonItem(items[1])
    ELSE JsonItem(items[1]) \o <<",", " ">> \o JsonJoin(Tail(items))

\* json.dumps(sorted_kwargs, sort_keys=True) of a non-empty list of tuples
JsonDumpsItems(items) == <<"[">> \o JsonJoin(items) \o <<"]">>

\* hashlib.sha256(cache_string.encode()).hexdigest() on the cache strings of
\* the model's questions, contents and parameters
SHA256Hex ==
    (<<"d","o","c","1",":","w","h","a","t"," ","i","s"," ","x","?">>
        :> <<"e","c","1","0","9","1","6","0","6","7","6","7","3","b","1","b","5","0","6","9","8","3","3","4","9","7","8","3","5","0","5","7","c","b","9","b","c","c","f","c","0","6","a","d","2","a","8","3","3","7","5","7","2","e","4","5","e","8","b","3","f","6","1","1">>)
    @@ (<<"d","o","c","1",":","w","h","a","t"," ","i","s"," ","x","?",":","[","[","\"","m","o","d","e","l","\"",","," ","\"","g","p","t","-","4","o","-","m","i","n","i","\"","]",","," ","[","\"","t","o","p","_","k","\"",","," ","5","]","]">>
        :> <<"3","5","d","8","6","e","6","f","6","b","b","d","2","c","6","d","b","2","3","d","2","2","5","5","b","8","f","f","f","0","9","5","b","8","d","4","a","9","7","5","f","3","2","0","5","1","5","e","e","1","e","f","c","a","c","a","9","f","5","f","b","2","b","3">>)
    @@ (<<"6","b","b","d",":","w","h","a","t"," ","i","s"," ","x","?">>
        :> <<"6","8","e","c","c","7","5","9","c","7","0","7","d","1","7","1","3","2","a","4","4","e","2","9","3","5","5","3","e","1","0","6","0","3","0","0","d","2","0","9","1","6","a","4","5","9","b","1","c","2","d","1","4","5","f","b","b","e","c","3","e","f","8","c">>)
    @@ (<<"6","b","b","d",":","w","h","a","t"," ","i","s"," ","x","?",":","[","[","\"","m","o","d","e","l","\"",","," ","\"","g","p","t","-","4","o","-","m","i","n","i","\"","]",","," ","[","\"","t","o","p","_","k","\"",","," ","5","]","]">>
        :> <<"9","7","b","0","5","f","1","2","a","f","1","0","7","6","b","a","5","f","2","0","d","2","2","3","d","3","f","5","7","6","5","9","a","4","d","6","5","0","f","e","3","f","0","f","6","2","8","b","e","1","d","a","6","6","7","e","5","b","f","8","9","b","f","9">>)
    @@ (<<"d","o","c","1",":","w","h","a","t"," ","i","s"," ","x","?",":","[","[","\"","t","o","p","_","k","\"",","," ","5","]",","," ","[","\"","m","o","d","e","l","\"",","," ","\"","g","p","t","-","4","o","-","m","i","n","i","\"","]","]">>
        :> <<"4","e","9","3","c","2","a","4","1","3","b","b","5","0","5","0","7","f","8","c","6","5","d","7","4","0","e","1","0","f","d","f","9","3","7","c","a","2","8","f","0","d","f","5","b","3","0","d","2","a","f","2","f","d","8","8","a","e","f","1","b","2","3","d">>)
    @@ (<<"d","o","c","1",":","w","h","a","t"," "," ","i","s"," ","x","?">>
        :> <<"2","1","e","4","3","e","d","0","b","7","2","0","4","3","5","f","e","f","a","b","d","4","f","1","e","4","2","6","9","8","c","5","f","d","3","c","a","b","0","4","3","6","6","9","8","8","5","2","7","4","9","2","e","3","4","1","3","5","5","1","f","d","b","4">>)
    @@ (<<"d","o","c","1",":","w","h","a","t"," "," ","i","s"," ","x","?",":","[","[","\"","m","o","d","e","l","\"",","," ","\"","g","p","t","-","4","o","-","m","i","n","i","\"","]",","," ","[","\"","t","o","p","_","k","\"",","," ","5","]","]">>
        :> <<"c","e","f","a","4","2","a","5","e","a","b","e","8","5","5","4","9","1","b","e","c","2","0","4","a","b","b","c","7","b","4","2","9","c","9","5","0","2","5","d","4","5","2","e","3","e","f","d","f","e","5","a","0","e","d","a","6","4","0","b","0","b","3","e">>)
    @@ (<<"d","o","c","1",":","w","h","a","t"," "," ","i","s"," ","x","?",":","[","[","\"","t","o","p","_","k","\"",","," ","5","]",","," ","[","\"","m","o","d","e","l","\"",","," ","\"","g","p","t","-","4","o","-","m","i","n","i","\"","]","]">>
        :> <<"c","f","1","f","e","4","2","0","9","4","3","0","e","2","b","a","2","c","0","0","e","3","7","0","e","e","f","f","0","3","b","c","a","f","3","d","e","5","2","7","b","a","2","7","2","d","7","5","9","2","0","3","0","5","4","a","4","7","9","d","0","d","e","4">>)
    @@ (<<"d","o","c","1",":","w","h","a","t"," ","i","s"," ","x","?",":","[","[","\"","m","o","d","e","l","\"",","," ","\"","g","p","t","-","4","o","-","m","i","n","i","\"","]",","," ","[","\"","t","o","p","_","k","\"",","," ","5","]","]",":","[","[","\"","m","o","d","e","l","\"",","," ","\"","g","p","t","-","4","o","-","m","i","n","i","\"","]",","," ","[","\"","t","o","p","_","k","\"",","," ","5","]","]">>
        :> <<"4","e","b","0","5","5","8","c","0","8","4","6","2","1","8","b","0","4","a","0","e","f","2","5","7","a","3","d","8","8","8","7","a","4","b","1","2","e","d","e","0","2","2","1","4","8","b","8","5","4","5","f","c","4","a","b","1","a","a","7","b","f","b","d">>)
    @@ (<<"d","o","c","1",":","w","h","a","t"," ","i","s"," ","x","?",":","[","[","\"","m","o","d","e","l","\"",","," ","\"","g","p","t","-","4","o","-","m","i","n","i","\"","]",","," ","[","\"","t","o","p","_","k","\"",","," ","5","]","]",":","[","[","\"","t","o","p","_","k","\"",","," ","5","]",","," ","[","\"","m","o","d","e","l","\"",","," ","\"","g","p","t","-","4","o","-","m","i","n","i","\"","]","]">>
        :> <<"8","6","f","f","6","e","1","a","7","1","4","e","7","2","0","f","7","8","c","6","e","8","6","0","6","2","b","c","9","d","7","b","6","c","7","e","b","6","b","f","2","8","1","a","9","a","8","d","6","7","4","b","d","6","b","0","2","b","e","f","9","9","f","1">>)
    @@ (<<"6","b","b","d",":","w","h","a","t"," ","i","s"," ","x","?",":","[","[","\"","t","o","p","_","k","\"",","," ","5","]",","," ","[","\"","m","o","d","e","l","\"",","," ","\"","g","p","t","-","4","o","-","m","i","n","i","\"","]","]">>
        :> <<"f","d","1","f","c","0","7","b","d","a","9","9","a","2","d","c","d","c","4","a","3","c","6","4","f","7","e","3","1","2","c","d","8","5","d","7","1","b","4","e","9","7","0","7","9","9","4","f","2","a","5","d","0","4","2","6","e","b","6","5","5","b","9","2">>)
    @@ (<<"6","b","b","d",":","w","h","a","t"," "," ","i","s"," ","x","?">>
        :> <<"7","1","e","0","0","6","a","6","d","8","0","3","3","2","a","4","e","2","b","f","5","8","b","b","3","e","8","5","d","7","e","5","4","3","5","e","8","c","6","5","4","3","5","7","4","6","b","5","6","f","e","6","e","9","4","e","0","f","4","0","4","2","8","a">>)
    @@ (<<"6","b","b","d",":","w","h","a","t"," "," ","i","s"," ","x","?",":","[","[","\"","m","o","d","e","l","\"",","," ","\"","g","p","t","-","4","o","-","m","i","n","i","\"","]",","," ","[","\"","t","o","p","_","k","\"",","," ","5","]","]">>
        :> <<"9","3","4","e","6","a","c","f","f","c","6","9","8","9","c","8","8","7","6","0","b","8","2","9","e","2","a","3","5","c","e","0","a","f","f","c","3","7","2","7","d","a","1","b","f","1","f","6","b","5","e","9","f","a","5","a","6","8","1","2","8","d","2","5">>)
    @@ (<<"6","b","b","d",":","w","h","a","t"," "," ","i","s"," ","x","?",":","[","[","\"","t","o","p","_","k","\"",","," ","5","]",","," ","[","\"","m","o","d","e","l","\"",","," ","\"","g","p","t","-","4","o","-","m","i","n","i","\"","]","]">>
        :> <<"5","e","1","3","e","1","7","f","5","f","2","d","8","6","1","b","6","7","b","e","9","3","7","f","9","0","4","5","6","1","7","a","8","d","7","e","6","8","4","f","c","8","2","9","d","8","a","1","2","0","3","5","1","0","4","3","f","7","a","a","4","c","b","0">>)
    @@ (<<"6","b","b","d",":","w","h","a","t"," ","i","s"," ","x","?",":","[","[","\"","m","o","d","e","l","\"",","," ","\"","g","p","t","-","4","o","-","m","i","n","i","\"","]",","," ","[","\"","t","o","p","_","k","\"",","," ","5","]","]",":","[","[","\"","m","o","d","e","l","\"",","," ","\"","g","p","t","-","4","o","-","m","i","n","i","\"","]",","," ","[","\"","t","o","p","_","k","\"",","," ","5","]","]">>
        :> <<"0","3","f","9","b","7","1","d","0","b","4","1","7","e","1","0","c","5","6","9","f","5","9","8","7","c","9","a","9","8","d","1","e","0","e","c","e","4","b","4","6","4","9","2","7","7","d","8","b","1","5","9","4","2","d","7","d","3","d","e","5","b","6","2">>)
    @@ (<<"6","b","b","d",":","w","h","a","t"," ","i","s"," ","x","?",":","[","[","\"","m","o","d","e","l","\"",","," ","\"","g","p","t","-","4","o","-","m","i","n","i","\"","]",","," ","[","\"","t","o","p","_","k","\"",","," ","5","]","]",":","[","[","\"","t","o","p","_","k","\"",","," ","5","]",","," ","[","\"","m","o","d","e","l","\"",","," ","\"","g","p","t","-","4","o","-","m","i","n","i","\"","]","]">>
        :> <<"3","8","5","f","a","4","b","2","a","8","2","7","5","5","d","d","c","a","4","3","c","a","5","a","7","1","d","2","7","9","4","2","4","7","a","5","f","e","9","e","2","5","7","7","f","8","f","7","9","1","c","c","b","7","c","2","b","0","c","3","4","c","c","5">>)

KeyPrefix == <<"c","h","e","m","b","o","t",":","q","a",":">>

\* CacheString that serializes the parameters in the order given
CacheStringUnsorted(question, content_id, kwargs) ==
    LET normalized_question == Strip(Lower(question))
        cache_string == content_id \o <<":">> \o normalized_question
    IN  IF kwargs # << >>
        THEN cache_string \o <<":">> \o JsonDumpsItems(kwargs)
        ELSE cache_string

\* RedisCacheManager._generate_cache_key
CacheString(question, content_id, kwargs) ==
    LET normalized_question == Strip(Lower(question))
        cache_string == content_id \o <<":">> \o normalized_question
    IN  IF kwargs # << >>
        THEN cache_string \o <<":">> \o JsonDumpsItems(SortedItems(kwargs))
        ELSE cache_string

GenerateCacheKey(question, content_id, kwargs) ==
    KeyPrefix \o SHA256Hex[CacheString(question, content_id, kwargs)]

\* The questions, contents and parameters of the model
QuestionPlain == <<"W","h","a","t"," ","i","s"," ","X","?">>

QuestionSpaced == <<" ","w","h","a","t"," ","i","s"," ","x","?"," ">>

Questions == {QuestionPlain, QuestionSpaced}

Doc1 == <<"d","o","c","1">>

\* A content id made of hexadecimal digits, as database ids are
DocHex == <<"6","b","b","d">>

ContentIds == {Doc1, DocHex}

LLM_MODEL == <<"g","p","t","-","4","o","-","m","i","n","i">>

NoKwargs == << >>

\* top_k=5, model=self.query_engine.llm_model, as the callers pass them
CallerKwargs ==
    << [name |-> <<"t","o","p","_","k">>, value |-> IntValue(5)],
       [name |-> <<"m","o","d","e","l">>, value |-> StrValue(LLM_MODEL)] >>

KwargSets == {NoKwargs, CallerKwargs}

\* EngineKwargs that passes no extra parameter to cache_answer
EngineKwargsNone(top_k) == NoKwargs

\* top_k=top_k, model=self.llm_model, as QueryEngine.answer_question passes
\* them to cache_answer
EngineKwargs(top_k) ==
    << [name |-> <<"t","o","p","_","k">>, value |-> IntValue(top_k)],
       [name |-> <<"m","o","d","e","l">>, value |-> StrValue(LLM_MODEL)] >>

AnswerOne == <<"X"," ","i","s"," ","a","n"," ","e","l","e","m","e","n","t",".">>

AnswerTwo == <<"X"," ","i","s"," ","a"," ","h","a","l","o","g","e","n",":"," ","f","l","u","o","r","i","n","e",","," ","c","h","l","o","r","i","n","e",".">>

Answers == {AnswerOne, AnswerTwo}

\* int((end_time - start_time).total_seconds() * 1000)
ResponseTimeMs == "end_time - start_time"

\* The result dict of a generated answer (QueryEngine.answer_question)
AnswerResult(answer) ==
    [answer |-> answer, confidence_score |-> 80,
     response_time_ms |-> ResponseTimeMs, model_used |-> LLM_MODEL,
     tokens_used |-> 0, source_chunks |-> << >>, cached |-> FALSE]

AnswerResults == {AnswerResult(a) : a \in Answers}

\* None, where a dict is expected
Absent == [absent |-> TRUE]

\* {**a, **b}
DictMerge(a, b) ==
    [k \in (DOMAIN a) \cup (DOMAIN b) |-> IF k \in DOMAIN b THEN b[k] ELSE a[k]]

\* json.dumps / json.loads of a dict whose values are strings, numbers,
\* booleans and lists: the text holds exactly the dict's items
JsonDumps(d) == [json |-> d]

JsonLoads(text) == text.json

VARIABLES
    cache_enabled,       \* RedisCacheManager.enabled
    cache_initialized,   \* RedisCacheManager._initialized
    redis_store,         \* the keys Redis holds, each with its value
    last_call            \* the latest call on the cache, with what it returned

cacheVars == <<cache_enabled, cache_initialized, redis_store, last_call>>

NoCall ==
    [op |-> "none", question |-> << >>, content_id |-> << >>, kwargs |-> << >>,
     data |-> Absent, result |-> Absent, reached |-> FALSE]

\* RedisCacheManager.__init__ with REDIS_CACHE_ENABLED = True
CacheInit ==
    /\ cache_enabled = TRUE
    /\ cache_initialized = FALSE
    /\ redis_store = {}
    /\ last_call = NoCall

StoredKeys == {e.key : e \in redis_store}

\* GET key
RedisGet(key) ==
    IF key \in StoredKeys
    THEN (CHOOSE e \in redis_store : e.key = key).value
    ELSE Absent

\* The store after SETEX key ttl value
RedisSetex(key, value) ==
    {e \in redis_store : e.key # key} \cup {[key |-> key, value |-> value]}

\* RedisCacheManager._ensure_initialized: enabled and _initialized after it;
\* up tells whether Redis answers the commands of this call
EnsureInitialized(up) ==
    IF ~cache_enabled \/ cache_initialized
    THEN [enabled |-> cache_enabled, initialized |-> cache_initialized]
    ELSE IF up
    THEN [enabled |-> TRUE, initialized |-> TRUE]
    ELSE [enabled |-> FALSE, initialized |-> FALSE]

\* An exception that leaves a call of the cache, where a dict is expected
Raised == [raised |-> TRUE]

\* CachedAnswer without the except clause: an error of Redis propagates
CachedAnswerRaising(question, content_id, kwargs, up) ==
    LET ready == EnsureInitialized(up)
        cached_data == RedisGet(GenerateCacheKey(question, content_id, kwargs))
    IN  IF ~cache_enabled THEN Absent
        ELSE IF ~ready.enabled THEN Absent
        ELSE IF ~up THEN Raised
        ELSE IF cached_data # Absent THEN JsonLoads(cached_data)
        ELSE Absent

\* RedisCacheManager.get_cached_answer: what it returns
CachedAnswer(question, content_id, kwargs, up) ==
    LET ready == EnsureInitialized(up)
        cached_data == RedisGet(GenerateCacheKey(question, content_id, kwargs))
    IN  IF ~cache_enabled THEN Absent
        ELSE IF ~ready.enabled THEN Absent
        ELSE IF ~up THEN Absent
        ELSE IF cached_data # Absent THEN JsonLoads(cached_data)
        ELSE Absent

\* CacheData that stores the answer as given, without the cache metadata
CacheDataPlain(answer_data, cache_key) == answer_data

\* cache_data of cache_answer: the answer with the cache metadata
CacheData(answer_data, cache_key) ==
    DictMerge(answer_data, [cached |-> TRUE, cache_key |-> cache_key])

\* RedisCacheManager.cache_answer: the store after it
StoreAfterCacheAnswer(question, content_id, answer_data, kwargs, up) ==
    LET ready == EnsureInitialized(up)
        cache_key == GenerateCacheKey(question, content_id, kwargs)
    IN  IF ~cache_enabled THEN redis_store
        ELSE IF ~ready.enabled THEN redis_store
        ELSE IF ~up THEN redis_store
        ELSE RedisSetex(cache_key, JsonDumps(CacheData(answer_data, cache_key)))

\* Whether a get or put got as far as its Redis command and had it answered
StoreReached(up) == cache_enabled /\ up

\* Redis glob match of key against f"chembot:qa:*{content_id}*"
MatchesContentPattern(key, content_id) ==
    /\ Len(key) >= Len(KeyPrefix)
    /\ SubSeq(key, 1, Len(KeyPrefix)) = KeyPrefix
    /\ Contains(SubSeq(key, Len(KeyPrefix) + 1, Len(key)), content_id)

\* get_cached_answer(question, content_id, **kwargs)
CacheGet(question, content_id, kwargs, up) ==
    LET ready == EnsureInitialized(up)
    IN  /\ cache_enabled' = ready.enabled
        /\ cache_initialized' = ready.initialized
        /\ redis_store' = redis_store
        /\ last_call' =
              [op |-> "get", question |-> question, content_id |-> content_id,
               kwargs |-> kwargs, data |-> Absent,
               result |-> CachedAnswer(question, content_id, kwargs, up),
               reached |-> StoreReached(up)]

\* cache_answer(question, content_id, answer_data, **kwargs)
CachePut(question, content_id, answer_data, kwargs, up) ==
    LET ready == EnsureInitialized(up)
    IN  /\ cache_enabled' = ready.enabled
        /\ cache_initialized' = ready.initialized
        /\ redis_store' = StoreAfterCacheAnswer(question, content_id, answer_data, kwargs, up)
        /\ last_call' =
              [op |-> "put", question |-> question, content_id |-> content_id,
               kwargs |-> kwargs, data |-> answer_data, result |-> Absent,
               reached |-> StoreReached(up)]

\* The store after invalidate_content_cache(content_id): SCAN with the
\* content pattern and DEL of the keys found
StoreAfterInvalidate(content_id, up) ==
    IF cache_enabled /\ up
    THEN {e \in redis_store : ~MatchesContentPattern(e.key, content_id)}
    ELSE redis_store

\* invalidate_content_cache(content_id)
CacheInvalidate(content_id, up) ==
    /\ redis_store' = StoreAfterInvalidate(content_id, up)
    /\ last_call' =
          [op |-> "invalidate", question |-> << >>, content_id |-> content_id,
           kwargs |-> << >>, data |-> Absent, result |-> Absent,
           reached |-> StoreReached(up)]
    /\ UNCHANGED <<cache_enabled, cache_initialized>>

\* clear_all_cache(): SCAN "chembot:qa:*" and DEL
CacheClearAll(up) ==
    /\ redis_store' =
          IF cache_enabled /\ up
          THEN {e \in redis_store :
                  ~(/\ Len(e.key) >= Len(KeyPrefix)
                    /\ SubSeq(e.key, 1, Len(KeyPrefix)) = KeyPrefix)}
          ELSE redis_store
    /\ last_call' =
          [op |-> "clear", question |-> << >>, content_id |-> << >>,
           kwargs |-> << >>, data |-> Absent, result |-> Absent,
           reached |-> StoreReached(up)]
    /\ UNCHANGED <<cache_enabled, cache_initialized>>

\* Redis drops an entry whose TTL (REDIS_CACHE_TTL seconds) has run out
CacheExpire(key) ==
    /\ key \in StoredKeys
    /\ redis_store' = {e \in redis_store : e.key # key}
    /\ last_call' =
          [op |-> "expire", question |-> key, content_id |-> << >>,
           kwargs |-> << >>, data |-> Absent, result |-> Absent,
           reached |-> TRUE]
    /\ UNCHANGED <<cache_enabled, cache_initialized>>

CacheNext ==
    \/ \E q \in Questions, c \in ContentIds, kw \in KwargSets, up \in BOOLEAN :
          CacheGet(q, c, kw, up)
    \/ \E q \in Questions, c \in ContentIds, kw \in KwargSets, d \in AnswerResults, up \in BOOLEAN :
          CachePut(q, c, d, kw, up)
    \/ \E c \in ContentIds, up \in BOOLEAN : CacheInvalidate(c, up)
    \/ \E up \in BOOLEAN : CacheClearAll(up)
    \/ \E k \in StoredKeys : CacheExpire(k)

(***************************************************************************)
(* Calls of RedisCacheManager._generate_cache_key                          *)
(***************************************************************************)
\* The question with two spaces inside
QuestionInner == <<"W","h","a","t"," "," ","i","s"," ","X","?">>

\* A question whose text ends like the serialized parameters of the callers
QuestionWithJson == <<"w","h","a","t"," ","i","s"," ","x","?",":","[","[","\"","m","o","d","e","l","\"",","," ","\"","g","p","t","-","4","o","-","m","i","n","i","\"","]",","," ","[","\"","t","o","p","_","k","\"",","," ","5","]","]">>

KeyQuestions == {QuestionPlain, QuestionSpaced, QuestionInner, QuestionWithJson}

\* model=..., top_k=5: the callers' parameters written in the other order
ReorderedKwargs == <<CallerKwargs[2], CallerKwargs[1]>>

KeyKwargSets == {NoKwargs, CallerKwargs, ReorderedKwargs}

VARIABLES
    key_calls    \* the last two calls of _generate_cache_key, with their keys

keyVars == <<key_calls>>

KeyInit == key_calls = << >>

\* _generate_cache_key(question, content_id, **kwargs)
GenerateKey(question, content_id, kwargs) ==
    LET call == [question |-> question, content_id |-> content_id,
                 kwargs |-> kwargs,
                 key |-> GenerateCacheKey(question, content_id, kwargs)]
    IN  key_calls' = IF key_calls = << >> THEN <<call>>
                     ELSE <<key_calls[Len(key_calls)], call>>

KeyNext ==
    \E q \in KeyQuestions, c \in ContentIds, kw \in KeyKwargSets :
        GenerateKey(q, c, kw)

(***************************************************************************)
(* Conversation windows (chatbot/conversation_manager.py)                  *)
(***************************************************************************)
\* The largest max_history a ConversationManager is constructed with
MaxHistory == 2

\* The number of calls made on one ConversationManager
MaxCalls == 3

\* settings.CONVERSATION_HISTORY_LENGTH, the max_history of the engine's
\* ConversationManager()
CONVERSATION_HISTORY_LENGTH == 5

UserOne == <<"u","1">>

UserTwo == <<"u","_","u","1">>

DocUnderscore == <<"d","o","c","1","_","u">>

\* The (content_id, user_id) pairs of the calls: the second and the third
\* differ in both parts
ConvPairs == {<<Doc1, UserOne>>, <<Doc1, UserTwo>>, <<DocUnderscore, UserOne>>}

\* datetime.now(timezone.utc), the default timestamp of a turn
TimestampNow == "datetime.now(timezone.utc)"

\* ConversationTurn(question, answer)
ConversationTurn(question, answer) ==
    [question |-> question, answer |-> answer, timestamp |-> TimestampNow]

TurnOne == ConversationTurn(QuestionPlain, AnswerOne)

TurnTwo == ConversationTurn(QuestionSpaced, AnswerTwo)

ConvTurns == {TurnOne, TurnTwo}

\* The question documents of one user and content in the database, oldest
\* first: one more than the largest max_history
StoredQuestions == [i \in 1..(MaxHistory + 1) |-> IF i % 2 = 1 THEN TurnOne ELSE TurnTwo]

VARIABLES
    max_history,      \* ConversationManager.max_history
    conversations,    \* ConversationManager.conversations: key -> list of turns
    conv_log          \* the calls made on the manager, in order

convVars == <<max_history, conversations, conv_log>>

NoConversations == [k \in {} |-> << >>]

\* ConversationManager(max_history): a falsy max_history takes the setting
ConversationManagerInit(mh) ==
    /\ max_history = (IF mh = 0 THEN CONVERSATION_HISTORY_LENGTH ELSE mh)
    /\ conversations = NoConversations
    /\ conv_log = << >>

\* The manager of the ChatbotEngine
ConvInitDefault == ConversationManagerInit(0)

ConvInit == \E mh \in 0..MaxHistory : ConversationManagerInit(mh)

\* ConversationManager._get_conversation_key
ConversationKey(content_id, user_id) == content_id \o <<"_">> \o user_id

\* list[-n:] for n >= 0: the whole list when n is 0 or exceeds its length
LastItems(list, n) ==
    IF n = 0 \/ n >= Len(list) THEN list
    ELSE SubSeq(list, Len(list) - n + 1, Len(list))

\* self.conversations.get(key, [])
HistoryOf(key) == IF key \in DOMAIN conversations THEN conversations[key] ELSE << >>

\* self.conversations[key] = list
WithHistory(key, list) ==
    [k \in DOMAIN conversations \cup {key} |-> IF k = key THEN list ELSE conversations[k]]

ConvCall(op, content_id, user_id, turn) ==
    [op |-> op, content_id |-> content_id, user_id |-> user_id, turn |-> turn]

\* add_turn that writes the list back without the turns added before
AddedTurnsLatestOnly(key, question, answer) ==
    << ConversationTurn(question, answer) >>

\* add_turn that keeps every turn
AddedTurnsUntrimmed(key, question, answer) ==
    Append(HistoryOf(key), ConversationTurn(question, answer))

\* The list of key after add_turn: the turn is appended and the list cut
\* to its last max_history turns
AddedTurns(key, question, answer) ==
    LET appended == Append(HistoryOf(key), ConversationTurn(question, answer))
    IN  IF Len(appended) > max_history
        THEN LastItems(appended, max_history)
        ELSE appended

\* ConversationManager.add_turn
AddTurn(content_id, user_id, question, answer) ==
    LET key == ConversationKey(content_id, user_id)
    IN  /\ conversations' = WithHistory(key, AddedTurns(key, question, answer))
        /\ conv_log' = Append(conv_log,
              ConvCall("add_turn", content_id, user_id, ConversationTurn(question, answer)))
        /\ UNCHANGED max_history

\* ConversationManager.get_history: limit 0 stands for None
GetHistory(content_id, user_id, limit) ==
    LET history == HistoryOf(ConversationKey(content_id, user_id))
    IN  IF limit # 0 THEN LastItems(history, limit) ELSE history

\* ConversationManager.clear_history
ClearHistory(content_id, user_id) ==
    LET key == ConversationKey(content_id, user_id)
    IN  /\ conversations' = [k \in DOMAIN conversations \ {key} |-> conversations[k]]
        /\ conv_log' = Append(conv_log, ConvCall("clear_history", content_id, user_id, Absent))
        /\ UNCHANGED max_history

\* ConversationManager.clear_all
ClearAll ==
    /\ conversations' = NoConversations
    /\ conv_log' = Append(conv_log, ConvCall("clear_all", << >>, << >>, Absent))
    /\ UNCHANGED max_history

\* ConversationManager.load_from_database: limit 0 stands for None; the
\* query returns the newest limit documents, which replace the list of the
\* key in chronological order; an error of the database is logged only
LoadFromDatabase(content_id, user_id, limit, db_ok) ==
    LET key == ConversationKey(content_id, user_id)
        effective == IF limit = 0 THEN max_history ELSE limit
    IN  /\ conversations' =
              IF db_ok THEN WithHistory(key, LastItems(StoredQuestions, effective))
              ELSE conversations
        /\ conv_log' = Append(conv_log, ConvCall("load_from_database", content_id, user_id, Absent))
        /\ UNCHANGED max_history

ConvNext ==
    /\ Len(conv_log) < MaxCalls
    /\ \/ \E p \in ConvPairs, t \in ConvTurns : AddTurn(p[1], p[2], t.question, t.answer)
       \/ \E p \in ConvPairs : ClearHistory(p[1], p[2])
       \/ ClearAll
       \/ \E p \in ConvPairs, limit \in {0, MaxHistory + 1}, db_ok \in BOOLEAN :
             LoadFromDatabase(p[1], p[2], limit, db_ok)

(***************************************************************************)
(* Question answering (chatbot/chatbot_engine.py, rag/query_engine.py,     *)
(* chatbot/query_classifier.py, rag/vector_store.py)                       *)
(***************************************************************************)
\* The requests in progress at the same time, each an ask_question or an
\* ask_question_stream call for content Doc1; request r generates through
\* call r of the retry executor
Reqs == {1, 2}

\* The question each request asks: the same question in two spellings
QuestionOf == <<QuestionPlain, QuestionSpaced>>

\* The fixed answers of ChatbotEngine and QueryEngine
GuidanceMessage == <<"I"," ","n","o","t","i","c","e","d"," ","t","h","i","s"," ","m","i","g","h","t"," ","n","o","t"," ","b","e"," ","a"," ","q","u","e","s","t","i","o","n","."," ","I","f"," ","y","o","u","'","d"," ","l","i","k","e"," ","t","o"," ","l","e","a","r","n"," ","s","o","m","e","t","h","i","n","g"," ","s","p","e","c","i","f","i","c"," ","f","r","o","m"," ","y","o","u","r"," ","m","a","t","e","r","i","a","l",","," ","p","l","e","a","s","e"," ","a","s","k"," ","m","e"," ","a"," ","q","u","e","s","t","i","o","n","!">>

ScopeMessage == <<"T","h","i","s"," ","q","u","e","s","t","i","o","n"," ","s","e","e","m","s"," ","t","o"," ","b","e"," ","o","u","t","s","i","d","e"," ","t","h","e"," ","s","c","o","p","e"," ","o","f"," ","y","o","u","r"," ","u","p","l","o","a","d","e","d"," ","l","e","a","r","n","i","n","g"," ","m","a","t","e","r","i","a","l","."," ","I"," ","c","a","n"," ","o","n","l","y"," ","h","e","l","p"," ","w","i","t","h"," ","q","u","e","s","t","i","o","n","s"," ","r","e","l","a","t","e","d"," ","t","o"," ","t","h","e"," ","c","o","n","t","e","n","t"," ","y","o","u","'","v","e"," ","p","r","o","v","i","d","e","d",".">>

EngineErrorMessage == <<"I"," ","e","n","c","o","u","n","t","e","r","e","d"," ","a","n"," ","e","r","r","o","r"," ","p","r","o","c","e","s","s","i","n","g"," ","y","o","u","r"," ","q","u","e","s","t","i","o","n","."," ","P","l","e","a","s","e"," ","t","r","y"," ","a","g","a","i","n",".">>

NoContextMessage == <<"I"," ","c","o","u","l","d","n","'","t"," ","f","i","n","d"," ","r","e","l","e","v","a","n","t"," ","i","n","f","o","r","m","a","t","i","o","n"," ","i","n"," ","t","h","e"," ","c","o","n","t","e","n","t"," ","t","o"," ","a","n","s","w","e","r"," ","y","o","u","r"," ","q","u","e","s","t","i","o","n",".">>

ProcessingErrorMessage == <<"I"," ","e","n","c","o","u","n","t","e","r","e","d"," ","a","n"," ","e","r","r","o","r"," ","w","h","i","l","e"," ","p","r","o","c","e","s","s","i","n","g"," ","y","o","u","r"," ","q","u","e","s","t","i","o","n","."," ","P","l","e","a","s","e"," ","t","r","y"," ","a","g","a","i","n",".">>

NoContextStreamMessage == <<"I"," ","c","o","u","l","d","n","'","t"," ","f","i","n","d"," ","r","e","l","e","v","a","n","t"," ","i","n","f","o","r","m","a","t","i","o","n"," ","i","n"," ","y","o","u","r"," ","u","p","l","o","a","d","e","d"," ","c","o","n","t","e","n","t"," ","t","o"," ","a","n","s","w","e","r"," ","t","h","i","s"," ","q","u","e","s","t","i","o","n",".">>

StreamErrorMessage == <<"A","n"," ","e","r","r","o","r"," ","o","c","c","u","r","r","e","d"," ","w","h","i","l","e"," ","g","e","n","e","r","a","t","i","n","g"," ","t","h","e"," ","a","n","s","w","e","r","."," ","P","l","e","a","s","e"," ","t","r","y"," ","a","g","a","i","n",".">>

\* str(e) of a failed database or vector store call
BackendErrorText == <<"c","o","n","n","e","c","t","i","o","n"," ","r","e","f","u","s","e","d">>

\* The error field of the query engine's answer without context
NoContextErrorText == <<"N","o"," ","r","e","l","e","v","a","n","t"," ","c","o","n","t","e","x","t"," ","f","o","u","n","d">>

\* What the classifier's provider call can come back with: a confident
\* question, the permissive default after a failure, not a question, and a
\* question outside the material (confidence in hundredths)
ClassConfident ==
    [is_question |-> TRUE, is_relevant |-> TRUE, confidence |-> 90]

ClassDefault ==
    [is_question |-> TRUE, is_relevant |-> TRUE, confidence |-> 50]

ClassNotQuestion ==
    [is_question |-> FALSE, is_relevant |-> FALSE, confidence |-> 90]

ClassOffTopic ==
    [is_question |-> TRUE, is_relevant |-> FALSE, confidence |-> 90]

\* Not a question, though about the material
ClassStatement ==
    [is_question |-> FALSE, is_relevant |-> TRUE, confidence |-> 90]

Classifications ==
    {ClassConfident, ClassDefault, ClassNotQuestion, ClassStatement, ClassOffTopic}

\* classification of a request that has not been classified
Unclassified == [is_question |-> FALSE, is_relevant |-> FALSE, confidence |-> 0]

\* dict.get(key, default)
DictGet(d, key, default) == IF key \in DOMAIN d THEN d[key] ELSE default

\* should_store_question with a threshold that 0.6 itself does not pass
ShouldStoreQuestionAbove(c) ==
    /\ DictGet(c, "is_question", FALSE)
    /\ DictGet(c, "is_relevant", FALSE)
    /\ DictGet(c, "confidence", 0) > 60

\* QueryClassifier.should_store_question; confidence is in hundredths
ShouldStoreQuestion(c) ==
    /\ DictGet(c, "is_question", FALSE)
    /\ DictGet(c, "is_relevant", FALSE)
    /\ DictGet(c, "confidence", 0) >= 60

\* The increments in which the provider streams its answer AnswerOne
StreamIncrements == <<SubSeq(AnswerOne, 1, 4), SubSeq(AnswerOne, 5, Len(AnswerOne))>>

\* chunk_size of the replay of a cached answer
ReplayChunkSize == 10

RECURSIVE Concat(_)
Concat(chunks) ==
    IF chunks = << >> THEN << >> ELSE chunks[1] \o Concat(Tail(chunks))

VARIABLES
    stage,            \* where each request is in its coroutine
    request,          \* the arguments of the request
    classification,   \* classification of the request
    answer_result,    \* cached_answer / answer_result / full_answer of the request
    response,         \* what the caller has received
    effects           \* the components the request has called

orchVars == <<stage, request, classification, answer_result, response, effects>>

NoRequest == [question |-> << >>, use_cache |-> FALSE, stream |-> FALSE]

NoResponse == [payload |-> Absent, chunks |-> << >>, closed |-> FALSE]

OrchInit ==
    /\ stage = [r \in Reqs |-> "Idle"]
    /\ request = [r \in Reqs |-> NoRequest]
    /\ classification = [r \in Reqs |-> Unclassified]
    /\ answer_result = [r \in Reqs |-> Absent]
    /\ response = [r \in Reqs |-> NoResponse]
    /\ effects = [r \in Reqs |-> {}]

\* The except clause of ask_question
EngineError(text) ==
    [answer |-> EngineErrorMessage, error |-> text, cached |-> FALSE]

\* return value, when the request is buffered
Returns(r, payload) ==
    response' = [response EXCEPT ![r].payload = payload]

\* yield chunk, when the request is streamed
Yields(r, chunk) ==
    response' = [response EXCEPT ![r].chunks = Append(@, chunk)]

\* ask_question / ask_question_stream up to the first await: the cache
\* lookup when use_cache, else the classifier's provider call
Ask(r, use_cache, stream) ==
    /\ stage[r] = "Idle"
    /\ request' = [request EXCEPT ![r] =
          [question |-> QuestionOf[r], use_cache |-> use_cache, stream |-> stream]]
    /\ stage' = [stage EXCEPT ![r] = IF use_cache THEN "CacheCheck" ELSE "Classify"]
    /\ effects' = [effects EXCEPT ![r] = IF use_cache THEN @ ELSE @ \cup {"classifier"}]
    /\ UNCHANGED <<classification, answer_result, response, rlVars, convVars, cacheVars>>

\* AnnotatedHit that leaves out the elapsed time
AnnotatedHitNoElapsed(cached_answer) ==
    DictMerge(cached_answer, [cached |-> TRUE])

\* The cache hit of ask_question: the cached answer with cached and
\* total_response_time_ms set
AnnotatedHit(cached_answer) ==
    DictMerge(cached_answer,
              [cached |-> TRUE, total_response_time_ms |-> ResponseTimeMs])

\* get_cached_answer returns. On a hit a buffered request tracks analytics
\* and returns the cached answer; a streamed request starts replaying it.
\* On a miss the classifier's provider call starts. An exception out of
\* get_cached_answer would end the request in its except clause.
CacheLookup(r, up, db_ok) ==
    LET q == request[r].question
        cached_answer == CachedAnswer(q, Doc1, CallerKwargs, up)
    IN  /\ stage[r] = "CacheCheck"
        /\ CacheGet(q, Doc1, CallerKwargs, up)
        /\ IF cached_answer = Raised
           THEN /\ stage' = [stage EXCEPT ![r] = "Done"]
                /\ IF request[r].stream
                   THEN Yields(r, EngineErrorMessage)
                   ELSE Returns(r, EngineError(BackendErrorText))
                /\ UNCHANGED <<answer_result, effects>>
           ELSE IF cached_answer # Absent
           THEN IF request[r].stream
                THEN /\ stage' = [stage EXCEPT ![r] = "Replay"]
                     /\ answer_result' = [answer_result EXCEPT ![r] = cached_answer]
                     /\ UNCHANGED <<response, effects>>
                ELSE /\ stage' = [stage EXCEPT ![r] = "Done"]
                     /\ answer_result' = [answer_result EXCEPT ![r] = AnnotatedHit(cached_answer)]
                     /\ Returns(r, IF db_ok THEN AnnotatedHit(cached_answer)
                                   ELSE EngineError(BackendErrorText))
                     /\ effects' = [effects EXCEPT ![r] = @ \cup {"analytics"}]
           ELSE /\ stage' = [stage EXCEPT ![r] = "Classify"]
                /\ effects' = [effects EXCEPT ![r] = @ \cup {"classifier"}]
                /\ UNCHANGED <<answer_result, response>>
        /\ UNCHANGED <<request, classification, rlVars, convVars>>

\* A slice that runs to the end of the answer
SliceEndWhole(sent, length) == length

\* The end of answer[i:i + chunk_size], where i is the number of characters
\* already sent
SliceEnd(sent, length) ==
    IF sent + ReplayChunkSize < length THEN sent + ReplayChunkSize ELSE length

\* The replay of a cached answer yields its next chunk_size characters
ReplayPiece(r) ==
    LET answer == answer_result[r].answer
        sent == Len(Concat(response[r].chunks))
        upto == SliceEnd(sent, Len(answer))
    IN  /\ stage[r] = "Replay"
        /\ sent < Len(answer)
        /\ Yields(r, SubSeq(answer, sent + 1, upto))
        /\ UNCHANGED <<stage, request, classification, answer_result, effects,
                       rlVars, cacheVars, convVars>>

\* The replay is over: analytics are tracked and the generator returns; a
\* failure of the analytics write yields the error message of the except
\* clause
ReplayEnd(r, db_ok) ==
    /\ stage[r] = "Replay"
    /\ Len(Concat(response[r].chunks)) = Len(answer_result[r].answer)
    /\ stage' = [stage EXCEPT ![r] = "Done"]
    /\ effects' = [effects EXCEPT ![r] = @ \cup {"analytics"}]
    /\ IF db_ok THEN UNCHANGED response ELSE Yields(r, EngineErrorMessage)
    /\ UNCHANGED <<request, classification, answer_result, rlVars, convVars, cacheVars>>

\* A rejection that looks at is_question only
RejectsNonQuestionOnly(c) == ~c.is_question

\* The tests after _classify_query: not a question, or not relevant
Rejects(c) == ~c.is_question \/ ~c.is_relevant

\* What ask_question returns for a rejected input; ask_question_stream
\* yields its answer
RejectionPayload(c) ==
    IF ~c.is_question
    THEN [answer |-> GuidanceMessage, is_question |-> FALSE,
          classification |-> c, cached |-> FALSE]
    ELSE [answer |-> ScopeMessage, is_question |-> TRUE, is_relevant |-> FALSE,
          classification |-> c, cached |-> FALSE]

\* The classifier's provider call returns (or fails, which classify_query
\* turns into ClassDefault). A query that is not a question or not relevant
\* is answered with the fixed message; else retrieval starts with the
\* provider call that embeds the question.
ClassifyEnd(r, c) ==
    /\ stage[r] = "Classify"
    /\ classification' = [classification EXCEPT ![r] = c]
    /\ IF Rejects(c)
       THEN /\ stage' = [stage EXCEPT ![r] = "Done"]
            /\ IF request[r].stream
               THEN Yields(r, RejectionPayload(c).answer)
               ELSE Returns(r, RejectionPayload(c))
            /\ UNCHANGED effects
       ELSE /\ stage' = [stage EXCEPT ![r] = "Embed"]
            /\ effects' = [effects EXCEPT ![r] = @ \cup {"retriever"}]
            /\ UNCHANGED response
    /\ UNCHANGED <<request, answer_result, rlVars, convVars, cacheVars>>

\* What search_similar ends with
RetrievalOutcomes == {"chunks", "empty", "error"}

\* search_similar returns or raises: with chunks the request goes on to
\* generate through the retry executor, else the query engine answers with
\* its fixed message
RetrieveEnd(r, found) ==
    /\ stage[r] = "Embed"
    /\ IF found = "chunks"
       THEN /\ stage' = [stage EXCEPT ![r] = "Generate"]
            /\ effects' = [effects EXCEPT ![r] = @ \cup {"generator"}]
            /\ UNCHANGED <<answer_result, response>>
       ELSE /\ stage' = [stage EXCEPT ![r] = "Persist"]
            /\ UNCHANGED effects
            /\ IF request[r].stream
               THEN LET message == IF found = "empty" THEN NoContextStreamMessage
                                   ELSE StreamErrorMessage
                    IN  /\ Yields(r, message)
                        /\ answer_result' = [answer_result EXCEPT ![r] = [answer |-> message]]
               ELSE /\ answer_result' = [answer_result EXCEPT ![r] =
                          IF found = "empty"
                          THEN [answer |-> NoContextMessage, confidence_score |-> 0,
                                source_chunks |-> << >>, error |-> NoContextErrorText]
                          ELSE [answer |-> ProcessingErrorMessage, confidence_score |-> 0,
                                source_chunks |-> << >>, error |-> BackendErrorText]]
                    /\ UNCHANGED response
    /\ UNCHANGED <<request, classification, rlVars, convVars, cacheVars>>

\* The errors the generation call of the provider raises in the model
GenerationErrors ==
    {[cls |-> "RateLimitError", msg |-> MsgTimeout],
     [cls |-> "Exception", msg |-> MsgTransient]}

\* execute_with_retry(litellm.acompletion, ...) of the request
GenerateStep(r) ==
    /\ stage[r] = "Generate"
    /\ \/ Submit(r)
       \/ Resume(r)
       \/ OpSucceeds(r)
       \/ \E e \in GenerationErrors : OpRaises(r, e)
       \/ Retry(r)
    /\ UNCHANGED <<orchVars, cacheVars, convVars>>

\* execute_with_retry has returned or raised. Buffered: answer_question
\* builds its result and caches it when use_cache, or returns its fixed
\* error answer. Streamed: the chunks of the response start to arrive, or
\* the error message is yielded.
GenerateEnd(r, up) ==
    LET q == request[r].question
        result == AnswerResult(AnswerOne)
    IN  /\ stage[r] = "Generate"
        /\ pc[r] \in {"returned", "raised"}
        /\ IF request[r].stream
           THEN /\ UNCHANGED <<cacheVars, effects>>
                /\ IF pc[r] = "returned"
                   THEN /\ stage' = [stage EXCEPT ![r] = "Streaming"]
                        /\ answer_result' = [answer_result EXCEPT ![r] = [answer |-> << >>]]
                        /\ UNCHANGED response
                   ELSE /\ stage' = [stage EXCEPT ![r] = "Persist"]
                        /\ answer_result' = [answer_result EXCEPT ![r] =
                              [answer |-> StreamErrorMessage]]
                        /\ Yields(r, StreamErrorMessage)
           ELSE /\ stage' = [stage EXCEPT ![r] = "Persist"]
                /\ UNCHANGED response
                /\ IF pc[r] = "returned"
                   THEN /\ answer_result' = [answer_result EXCEPT ![r] = result]
                        /\ IF request[r].use_cache
                           THEN /\ CachePut(q, Doc1, result, EngineKwargs(5), up)
                                /\ effects' = [effects EXCEPT ![r] = @ \cup {"cache_store"}]
                           ELSE UNCHANGED <<cacheVars, effects>>
                   ELSE /\ answer_result' = [answer_result EXCEPT ![r] =
                              [answer |-> ProcessingErrorMessage, confidence_score |-> 0,
                               source_chunks |-> << >>, error |-> outcome[r].error.msg]]
                        /\ UNCHANGED <<cacheVars, effects>>
        /\ UNCHANGED <<request, classification, rlVars, convVars>>

\* An accumulation that keeps the latest chunk only
AccumulateLatest(full_answer, chunk) == chunk

\* full_answer += chunk
Accumulate(full_answer, chunk) == full_answer \o chunk

\* The next chunk of the provider's streamed response is yielded and added
\* to full_answer
StreamIncrement(r) ==
    LET n == Len(response[r].chunks)
    IN  /\ stage[r] = "Streaming"
        /\ n < Len(StreamIncrements)
        /\ Yields(r, StreamIncrements[n + 1])
        /\ answer_result' = [answer_result EXCEPT ![r].answer =
              Accumulate(@, StreamIncrements[n + 1])]
        /\ stage' = [stage EXCEPT ![r] =
              IF n + 1 = Len(StreamIncrements) THEN "Persist" ELSE "Streaming"]
        /\ UNCHANGED <<request, classification, effects, rlVars, convVars, cacheVars>>

\* The provider's streamed response breaks off: answer_question_stream
\* yields its error message
StreamBreaks(r) ==
    /\ stage[r] = "Streaming"
    /\ Yields(r, StreamErrorMessage)
    /\ answer_result' = [answer_result EXCEPT ![r].answer =
          Accumulate(@, StreamErrorMessage)]
    /\ stage' = [stage EXCEPT ![r] = "Persist"]
    /\ UNCHANGED <<request, classification, effects, rlVars, convVars, cacheVars>>

\* A generator that goes on to its finalisation when it is closed
StageAfterCloseFinalizing(at) == IF at = "Streaming" THEN "Persist" ELSE at

\* GeneratorExit is raised at the yield where the generator is suspended;
\* it is no Exception, so the except clause of ask_question_stream lets it
\* pass and the generator ends there
StageAfterClose(at) == "Closed"

\* The consumer of ask_question_stream stops consuming (disconnect or
\* cancellation) and the generator, suspended at a yield, is closed
Aclose(r) ==
    /\ request[r].stream
    /\ stage[r] \in {"Replay", "Streaming", "Persist"}
    /\ response[r].chunks # << >>
    /\ ~response[r].closed
    /\ stage' = [stage EXCEPT ![r] = StageAfterClose(stage[r])]
    /\ response' = [response EXCEPT ![r].closed = TRUE]
    /\ UNCHANGED <<request, classification, answer_result, effects, rlVars, convVars,
                   cacheVars>>

\* The response of ask_question after a generated or fixed answer
FinalResponse(r) ==
    DictMerge(answer_result[r],
              [question_id |-> IF ShouldStoreQuestion(classification[r])
                               THEN "question_doc.id" ELSE "None",
               is_question |-> TRUE, is_relevant |-> TRUE,
               classification |-> classification[r],
               total_response_time_ms |-> ResponseTimeMs])

\* TrackedAnalytics that gives every event a question id
TrackedAnalyticsWithId(stored) == {"analytics", "analytics_question_id"}

\* _track_analytics(question_id=question_doc.id if question_doc else None):
\* the event carries a question id when the question was stored
TrackedAnalytics(stored) ==
    IF stored THEN {"analytics", "analytics_question_id"} ELSE {"analytics"}

\* The rest of the request: the question is stored when should_store_question,
\* a streamed answer is cached when use_cache and full_answer, the turn is
\* added to the conversation and analytics are tracked. db_ok tells whether
\* the database answers; its first failing call ends the request in the
\* except clause.
Persist(r, up, db_ok) ==
    LET q == request[r].question
        store == ShouldStoreQuestion(classification[r])
        full_answer == answer_result[r].answer
        caches == request[r].stream /\ request[r].use_cache /\ full_answer # << >>
        fails_early == store /\ ~db_ok
    IN  /\ stage[r] = "Persist"
        /\ stage' = [stage EXCEPT ![r] = "Done"]
        /\ effects' = [effects EXCEPT ![r] =
              @ \cup (IF store THEN {"save_question"} ELSE {})
                \cup (IF caches /\ ~fails_early THEN {"cache_store"} ELSE {})
                \cup (IF fails_early THEN {} ELSE {"add_turn"} \cup TrackedAnalytics(store))]
        /\ IF caches /\ ~fails_early
           THEN CachePut(q, Doc1, AnswerResult(full_answer), CallerKwargs, up)
           ELSE UNCHANGED cacheVars
        /\ IF fails_early
           THEN UNCHANGED convVars
           ELSE AddTurn(Doc1, UserOne, q, full_answer)
        /\ IF request[r].stream
           THEN IF db_ok THEN UNCHANGED response ELSE Yields(r, EngineErrorMessage)
           ELSE Returns(r, IF db_ok THEN FinalResponse(r)
                           ELSE EngineError(BackendErrorText))
        /\ UNCHANGED <<request, classification, answer_result, rlVars>>

OrchStep(r) ==
    \/ \E use_cache \in BOOLEAN, stream \in BOOLEAN : Ask(r, use_cache, stream)
    \/ \E up \in BOOLEAN, db_ok \in BOOLEAN : CacheLookup(r, up, db_ok)
    \/ ReplayPiece(r)
    \/ \E db_ok \in BOOLEAN : ReplayEnd(r, db_ok)
    \/ \E c \in Classifications : ClassifyEnd(r, c)
    \/ \E found \in RetrievalOutcomes : RetrieveEnd(r, found)
    \/ GenerateStep(r)
    \/ \E up \in BOOLEAN : GenerateEnd(r, up)
    \/ StreamIncrement(r)
    \/ StreamBreaks(r)
    \/ \E up \in BOOLEAN, db_ok \in BOOLEAN : Persist(r, up, db_ok)
    \/ Aclose(r)

OrchNext == \E r \in Reqs : OrchStep(r)

(***************************************************************************)
(* Query classifier (chatbot/query_classifier.py)                          *)
(***************************************************************************)
\* The longest provider output, in segments
MaxSegments == 3

\* The classification of a disabled classifier
ClassDisabled == [is_question |-> TRUE, is_relevant |-> TRUE, confidence |-> 100]

\* A classification the provider returns without is_relevant and confidence
ClassPartial == [is_question |-> TRUE]

\* The provider's output is a sequence of segments: the code-fence markers,
\* whitespace, text that is no JSON, and JSON documents
\* The opening of a json code block: three backquotes and the word json
SegFenceJson == [seg |-> "fence_json"]

\* Three backquotes
SegFence == [seg |-> "fence"]

SegSpace == [seg |-> " "]

SegProse == [seg |-> "prose"]

SegJson(d) == [seg |-> "json", value |-> d]

Segments == {SegFenceJson, SegFence, SegSpace, SegProse, SegJson(ClassOffTopic), SegJson(ClassPartial)}

SeqsUpTo(S, n) == UNION {[1..k -> S] : k \in 0..n}

\* What litellm.acompletion ends with: an error, a message without content,
\* or a message with content
ProviderResponses ==
    {[kind |-> "raises", cls |-> c] : c \in ErrorClasses}
       \cup {[kind |-> "no_content"]}
       \cup {[kind |-> "content", content |-> t] : t \in SeqsUpTo(Segments, MaxSegments)}

\* marker in text
HasSegment(text, markers) == \E i \in 1..Len(text) : text[i] \in markers

FirstIndex(text, markers) ==
    CHOOSE i \in 1..Len(text) :
        text[i] \in markers /\ \A j \in 1..(i - 1) : text[j] \notin markers

\* text.split(marker)[0]
SplitFirst(text, markers) ==
    IF HasSegment(text, markers)
    THEN SubSeq(text, 1, FirstIndex(text, markers) - 1)
    ELSE text

\* text.split(marker)[1], for a text that holds the marker
SplitSecond(text, markers) ==
    SplitFirst(SubSeq(text, FirstIndex(text, markers) + 1, Len(text)), markers)

RECURSIVE StripSegments(_)
\* str.strip()
StripSegments(text) ==
    IF text = << >> THEN text
    ELSE IF Head(text) = SegSpace THEN StripSegments(Tail(text))
    ELSE IF text[Len(text)] = SegSpace THEN StripSegments(SubSeq(text, 1, Len(text) - 1))
    ELSE text

\* The segments that hold three backquotes
AnyFence == {SegFence, SegFenceJson}

\* classification_text after the extraction from a markdown code block
ExtractJson(content) ==
    LET classification_text == StripSegments(content)
    IN  IF HasSegment(classification_text, {SegFenceJson})
        THEN StripSegments(SplitFirst(SplitSecond(classification_text, {SegFenceJson}), AnyFence))
        ELSE IF HasSegment(classification_text, AnyFence)
        THEN StripSegments(SplitFirst(SplitSecond(classification_text, AnyFence), AnyFence))
        ELSE classification_text

Exception(cls) == [exception |-> cls]

\* json.loads: one JSON document, whitespace around it allowed
JsonLoadsText(text) ==
    LET body == StripSegments(text)
    IN  IF Len(body) = 1 /\ body[1].seg = "json"
        THEN body[1].value
        ELSE Exception("JSONDecodeError")

\* The try block of classify_query: the classification, or the exception
\* that leaves the block
ClassifyTry(reply) ==
    IF reply.kind = "raises" THEN Exception(reply.cls)
    ELSE IF reply.kind = "no_content" THEN Exception("AttributeError")
    ELSE JsonLoadsText(ExtractJson(reply.content))

\* except clauses that handle json.JSONDecodeError only
HandledJsonOnly(cls) == cls = "JSONDecodeError"

\* The except clauses of classify_query: json.JSONDecodeError and Exception
Handled(cls) ==
    cls \in {"JSONDecodeError", "AttributeError"} \cup ErrorClasses

\* QueryClassifier.classify_query
ClassifyQueryResult(enabled, reply) ==
    LET tried == ClassifyTry(reply)
    IN  IF ~enabled THEN ClassDisabled
        ELSE IF "exception" \notin DOMAIN tried THEN tried
        ELSE IF Handled(tried.exception) THEN ClassDefault
        ELSE tried

\* The confidences should_store_question is called with, in hundredths
Confidences == {0, 50, 59, 60, 61, 100}

\* A flag of a classification: missing, or a truth value
FlagEntries(key) == {[k \in {} |-> TRUE]} \cup {[k \in {key} |-> b] : b \in BOOLEAN}

ConfidenceEntries == {[k \in {} |-> 0]} \cup {[k \in {"confidence"} |-> c] : c \in Confidences}

\* The classifications should_store_question is called with: each key is
\* present or missing
ClassificationDicts ==
    {DictMerge(DictMerge(q, r), c) :
        q \in FlagEntries("is_question"), r \in FlagEntries("is_relevant"),
        c \in ConfidenceEntries}

VARIABLES
    cls_enabled,      \* QueryClassifier.enabled
    cls_call          \* the last call on the classifier and what it returned

clsVars == <<cls_enabled, cls_call>>

ClsInit ==
    /\ cls_enabled \in BOOLEAN
    /\ cls_call = Absent

\* settings.ENABLE_QUERY_CLASSIFICATION as configured
ClsInitEnabled ==
    /\ cls_enabled = TRUE
    /\ cls_call = Absent

ClassifyQuery(reply) ==
    /\ cls_call' = [op |-> "classify_query", reply |-> reply,
                    result |-> ClassifyQueryResult(cls_enabled, reply)]
    /\ UNCHANGED cls_enabled

ShouldStoreCall(c) ==
    /\ cls_call' = [op |-> "should_store_question", classification |-> c,
                    result |-> ShouldStoreQuestion(c)]
    /\ UNCHANGED cls_enabled

ClsNext ==
    \/ \E reply \in ProviderResponses : ClassifyQuery(reply)
    \/ \E c \in ClassificationDicts : ShouldStoreCall(c)

(***************************************************************************)
(* Chunking (rag/chunking.py)                                              *)
(*                                                                         *)
(* A text is a sequence of paragraphs (separated by blank lines), a        *)
(* paragraph a sequence of sentences, a sentence a record of its position  *)
(* in the document (id) and its number of words.                           *)
(***************************************************************************)
\* The largest number of paragraphs of a document
MaxParagraphs == 2

RECURSIVE SentenceWords(_)
\* len(paragraph.split())
SentenceWords(sentences) ==
    IF sentences = << >> THEN 0
    ELSE Head(sentences).words + SentenceWords(Tail(sentences))

RECURSIVE WordCount(_)
\* len(text.split())
WordCount(text) ==
    IF text = << >> THEN 0
    ELSE SentenceWords(Head(text)) + WordCount(Tail(text))

RECURSIVE JoinTexts(_)
\* "\n\n".join(texts)
JoinTexts(texts) ==
    IF texts = << >> THEN << >> ELSE Head(texts) \o JoinTexts(Tail(texts))

\* Chunk(text, metadata)
Chunk(text, metadata) ==
    [text |-> text, metadata |-> metadata, word_count |-> WordCount(text)]

ChunkMetadata(chunk_index, strategy) ==
    [chunk_index |-> chunk_index, chunking_strategy |-> strategy]

\* The caller's metadata: no chunk_index and no chunking_strategy
NoMetadata == [k \in {} |-> 0]

RECURSIVE TailFit(_, _)
\* The number of items at the end of a list that the overlap loops keep:
\* items are taken from the last one backwards while their words fit
TailFit(counts, budget) ==
    IF counts = << >> THEN 0
    ELSE LET last == counts[Len(counts)]
         IN  IF last <= budget
             THEN 1 + TailFit(SubSeq(counts, 1, Len(counts) - 1), budget - last)
             ELSE 0

\* list[-n:] for 0 <= n <= len(list), empty when n is 0
KeptItems(list, n) == SubSeq(list, Len(list) - n + 1, Len(list))

\* The overlap of _chunk_by_sentences: the last sentences that fit
OverlapSentences(current, overlap) ==
    IF overlap > 0
    THEN KeptItems(current, TailFit([i \in 1..Len(current) |-> current[i].words], overlap))
    ELSE << >>

\* One pass of the loop of _chunk_by_sentences
SentenceStep(st, sentence, chunk_size, overlap, start_index) ==
    LET flush == st.words + sentence.words > chunk_size /\ st.current # << >>
        chunks == IF flush
                  THEN Append(st.chunks,
                          Chunk(<<st.current>>,
                                ChunkMetadata(start_index + Len(st.chunks), "heuristic_sentence")))
                  ELSE st.chunks
        kept == IF flush THEN OverlapSentences(st.current, overlap) ELSE st.current
    IN  [chunks |-> chunks,
         current |-> Append(kept, sentence),
         words |-> SentenceWords(kept) + sentence.words]

RECURSIVE SentenceLoop(_, _, _, _, _)
SentenceLoop(st, sentences, chunk_size, overlap, start_index) ==
    IF sentences = << >> THEN st
    ELSE SentenceLoop(SentenceStep(st, Head(sentences), chunk_size, overlap, start_index),
                      Tail(sentences), chunk_size, overlap, start_index)

\* HeuristicChunker._chunk_by_sentences
ChunkBySentences(paragraph, chunk_size, overlap, start_index) ==
    LET st == SentenceLoop([chunks |-> << >>, current |-> << >>, words |-> 0],
                           paragraph, chunk_size, overlap, start_index)
    IN  IF st.current # << >>
        THEN Append(st.chunks,
                Chunk(<<st.current>>,
                      ChunkMetadata(start_index + Len(st.chunks), "heuristic_sentence")))
        ELSE st.chunks

\* HeuristicChunker._get_overlap_text: the last items of current_chunk that
\* fit in overlap words, joined
GetOverlapText(blocks, overlap) ==
    IF blocks = << >> \/ overlap <= 0 THEN << >>
    ELSE JoinTexts(KeptItems(blocks,
            TailFit([i \in 1..Len(blocks) |-> WordCount(blocks[i])], overlap)))

\* The chunk made of the accumulated paragraphs
ParagraphChunk(current_chunk, chunk_index) ==
    Chunk(JoinTexts(current_chunk), ChunkMetadata(chunk_index, "heuristic"))

\* Exceeds that also holds when the words fill the chunk exactly
ExceedsOrFills(words, chunk_size) == words >= chunk_size

\* "if current_word_count + para_word_count > self.chunk_size"
Exceeds(words, chunk_size) == words > chunk_size

\* One pass of the loop of HeuristicChunker.chunk. current_chunk is a list
\* of texts: single paragraphs, and the overlap text as one item
ParagraphStep(st, para, chunk_size, overlap) ==
    LET para_word_count == SentenceWords(para)
        added == [st EXCEPT !.current = Append(@, <<para>>),
                            !.words = @ + para_word_count]
    IN  IF Exceeds(st.words + para_word_count, chunk_size)
        THEN LET overlap_text == GetOverlapText(st.current, overlap)
                 flushed ==
                    IF st.current # << >>
                    THEN [chunks |-> Append(st.chunks, ParagraphChunk(st.current, Len(st.chunks))),
                          current |-> IF overlap_text # << >> THEN <<overlap_text>> ELSE << >>,
                          words |-> WordCount(overlap_text)]
                    ELSE st
             IN  IF para_word_count > chunk_size
                 THEN [flushed EXCEPT !.chunks =
                          @ \o ChunkBySentences(para, chunk_size, overlap, Len(@))]
                 ELSE [flushed EXCEPT !.current = Append(@, <<para>>),
                                      !.words = @ + para_word_count]
        ELSE added

RECURSIVE ParagraphLoop(_, _, _, _)
ParagraphLoop(st, paragraphs, chunk_size, overlap) ==
    IF paragraphs = << >> THEN st
    ELSE ParagraphLoop(ParagraphStep(st, Head(paragraphs), chunk_size, overlap),
                       Tail(paragraphs), chunk_size, overlap)

\* HeuristicChunker.chunk
HeuristicChunk(text, chunk_size, overlap) ==
    LET st == ParagraphLoop([chunks |-> << >>, current |-> << >>, words |-> 0],
                            text, chunk_size, overlap)
    IN  IF st.current # << >>
        THEN Append(st.chunks, ParagraphChunk(st.current, Len(st.chunks)))
        ELSE st.chunks

\* The metadata.update of the two refining loops
WithStrategy(chunk, strategy) ==
    [chunk EXCEPT !.metadata =
        [k \in DOMAIN @ \cup {"chunking_strategy"} |->
            IF k = "chunking_strategy" THEN strategy ELSE @[k]]]

WithIndex(chunk, chunk_index) ==
    [chunk EXCEPT !.metadata =
        [k \in DOMAIN @ \cup {"chunk_index"} |->
            IF k = "chunk_index" THEN chunk_index ELSE @[k]]]

RECURSIVE MapStrategy(_, _)
MapStrategy(chunks, strategy) ==
    IF chunks = << >> THEN << >>
    ELSE <<WithStrategy(Head(chunks), strategy)>> \o MapStrategy(Tail(chunks), strategy)

RECURSIVE SemanticLoop(_, _, _, _)
\* The loop of SemanticChunker.chunk over the sections of the document
SemanticLoop(chunks, sections, chunk_size, overlap) ==
    IF sections = << >> THEN chunks
    ELSE LET section_text == Head(sections)
             next == IF WordCount(section_text) <= chunk_size
                     THEN Append(chunks,
                             Chunk(section_text, ChunkMetadata(Len(chunks), "semantic")))
                     ELSE chunks \o MapStrategy(HeuristicChunk(section_text, chunk_size, overlap),
                                                "semantic_hybrid")
         IN  SemanticLoop(next, Tail(sections), chunk_size, overlap)

\* SemanticChunker.chunk
SemanticChunk(sections, chunk_size, overlap) ==
    SemanticLoop(<< >>, sections, chunk_size, overlap)

\* The fewest words of a section of the provider's reply that is kept
MinSectionWords == 50
\* The factor of base_index in the chunk_index of a section of the reply
IndexStride == 10

\* The text of a section of the provider's reply: one sentence of the given
\* number of words that is no sentence of the document (id 0)
ReplyText(words) == <<<<[id |-> 0, words |-> words]>>>>

RECURSIVE ReplyChunks(_, _, _)
\* The loop over the sections of the reply, from section i on
ReplyChunks(reply, i, base_index) ==
    IF i >= Len(reply) THEN << >>
    ELSE (IF reply[i + 1] > MinSectionWords
          THEN <<Chunk(ReplyText(reply[i + 1]),
                       ChunkMetadata(base_index * IndexStride + i, "intelligent_llm"))>>
          ELSE << >>) \o ReplyChunks(reply, i + 1, base_index)

\* A fallback of _llm_split_chunk that returns no chunk
SplitFallbackNone(text, chunk_size, overlap) == << >>

\* The except branch of _llm_split_chunk
SplitFallback(text, chunk_size, overlap) == HeuristicChunk(text, chunk_size, overlap)

\* IntelligentChunker._llm_split_chunk; failed: the provider call raises
LlmSplitChunk(text, base_index, chunk_size, overlap, reply, failed) ==
    IF failed THEN SplitFallback(text, chunk_size, overlap)
    ELSE LET chunks == ReplyChunks(reply, 0, base_index)
         IN  IF chunks # << >> THEN chunks ELSE <<Chunk(text, NoMetadata)>>

\* chunk.word_count > self.chunk_size * 1.5
Oversized(chunk, chunk_size) == 2 * chunk.word_count > 3 * chunk_size

RECURSIVE RefineLoop(_, _, _, _, _, _, _)
\* The loop of IntelligentChunker.chunk from base chunk i on (counted from
\* 0); the result lists, for every base chunk, the chunks derived from it
RefineLoop(base_chunks, i, refined_len, chunk_size, overlap, reply, failing) ==
    IF i >= Len(base_chunks) THEN << >>
    ELSE LET chunk == base_chunks[i + 1]
             part == IF Oversized(chunk, chunk_size)
                     THEN LlmSplitChunk(chunk.text, i, chunk_size, overlap, reply, i \in failing)
                     ELSE <<WithIndex(WithStrategy(chunk, "intelligent"), refined_len)>>
         IN  <<part>> \o RefineLoop(base_chunks, i + 1, refined_len + Len(part),
                                    chunk_size, overlap, reply, failing)

\* What IntelligentChunker.chunk derives from each base chunk
IntelligentParts(sections, chunk_size, overlap, reply, failing) ==
    RefineLoop(SemanticChunk(sections, chunk_size, overlap), 0, 0,
               chunk_size, overlap, reply, failing)

\* IntelligentChunker.chunk
IntelligentChunk(sections, chunk_size, overlap, reply, failing) ==
    IF WordCount(JoinTexts(sections)) <= chunk_size
    THEN <<Chunk(JoinTexts(sections), ChunkMetadata(0, "intelligent_single"))>>
    ELSE JoinTexts(IntelligentParts(sections, chunk_size, overlap, reply, failing))

\* get_chunker(strategy, chunk_size, overlap).chunk(text)
GetChunkerChunk(in) ==
    CASE in.strategy = "heuristic" ->
            HeuristicChunk(JoinTexts(in.sections), in.chunk_size, in.overlap)
      [] in.strategy = "intelligent" ->
            IntelligentChunk(in.sections, in.chunk_size, in.overlap, in.reply, in.failing)
      [] OTHER -> SemanticChunk(in.sections, in.chunk_size, in.overlap)

\* The numbers of words of the sentences of the documents
SentenceLengths == {1, 4}
\* The most sentences of a paragraph of the documents
MaxSentences == 2

\* The paragraphs as lists of the numbers of words of their sentences
ParagraphShapes == SeqsUpTo(SentenceLengths, MaxSentences) \ {<< >>}

DocumentShapes == SeqsUpTo(ParagraphShapes, MaxParagraphs) \ {<< >>}

RECURSIVE SentencesBefore(_, _)
\* The number of sentences before paragraph j
SentencesBefore(shape, j) ==
    IF j <= 1 THEN 0 ELSE Len(shape[j - 1]) + SentencesBefore(shape, j - 1)

\* The text of a shape: its sentences numbered in document order
TextOf(shape) ==
    [j \in 1..Len(shape) |->
        [k \in 1..Len(shape[j]) |->
            [id |-> SentencesBefore(shape, j) + k, words |-> shape[j][k]]]]

RECURSIVE SectionsFrom(_, _, _, _)
\* The sections of a text whose headers start the paragraphs after the
\* positions in cuts (_parse_markdown_sections, for headers that start a
\* paragraph)
SectionsFrom(text, cuts, j, section) ==
    IF j > Len(text) THEN <<section>>
    ELSE IF (j - 1) \in cuts
         THEN <<section>> \o SectionsFrom(text, cuts, j + 1, <<text[j]>>)
         ELSE SectionsFrom(text, cuts, j + 1, Append(section, text[j]))

ParseMarkdownSections(text, cuts) == SectionsFrom(text, cuts, 2, <<text[1]>>)

Documents ==
    {ParseMarkdownSections(TextOf(shape), cuts) :
        shape \in DocumentShapes, cuts \in SUBSET (1..(MaxParagraphs - 1))}

\* The replies of the provider to a split request, as the numbers of words
\* of the sections between the split markers
SplitReplies == {<<60, 60>>, <<10, 60>>, <<10>>}

\* The base chunks whose split request may fail
FailingSets == {{}} \cup {{i} : i \in 0..MaxParagraphs}

ChunkSizes == {2, 3}
Overlaps == {0, 1}

ChunkerInput(sections, strategy, chunk_size, overlap, reply, failing) ==
    [sections |-> sections, strategy |-> strategy, chunk_size |-> chunk_size,
     overlap |-> overlap, reply |-> reply, failing |-> failing]

\* The provider is called by the intelligent strategy only
ChunkerInputs ==
    {ChunkerInput(d, st, cs, ov, <<60, 60>>, {}) :
        d \in Documents, st \in {"heuristic", "semantic"}, cs \in ChunkSizes, ov \in Overlaps}
    \cup
    {ChunkerInput(d, "intelligent", cs, ov, reply, failing) :
        d \in Documents, cs \in ChunkSizes, ov \in Overlaps,
        reply \in SplitReplies, failing \in FailingSets}

VARIABLES
    chunk_input,      \* the document and the settings of one chunking run
    chunk_output      \* what chunk() returned

chunkVars == <<chunk_input, chunk_output>>

ChunkInit ==
    /\ chunk_input \in ChunkerInputs
    /\ chunk_output = Absent

\* Nothing is chunked
ChunkInitNone ==
    /\ chunk_input = Absent
    /\ chunk_output = Absent

\* RAGPipeline.process_document, stage 3
ChunkRun ==
    /\ chunk_input # Absent
    /\ chunk_output = Absent
    /\ chunk_output' = [chunks |-> GetChunkerChunk(chunk_input)]
    /\ UNCHANGED chunk_input

ChunkNext == ChunkRun

\* settings.CHUNK_SIZE and CHUNK_OVERLAP, the defaults of the chunkers
CHUNK_SIZE == 800
CHUNK_OVERLAP == 150

\* The numbers of words of the paragraphs of the three-paragraph documents
ParagraphWords == {300, 400, 500}

\* A document of three paragraphs of a, b and c words without headers
ThreeParagraphs(a, b, c) ==
    ParseMarkdownSections(TextOf(<< <<a>>, <<b>>, <<c>> >>), {})

\* Heuristic runs on the three-paragraph documents, with the default
\* settings, with a chunk one word smaller and without overlap
ScenarioInputs ==
    {ChunkerInput(ThreeParagraphs(a, b, c), "heuristic", cs, ov, <<60, 60>>, {}) :
        a \in ParagraphWords, b \in ParagraphWords, c \in ParagraphWords,
        cs \in {CHUNK_SIZE - 1, CHUNK_SIZE}, ov \in {0, CHUNK_OVERLAP}}

ScenarioInit ==
    /\ chunk_input \in ScenarioInputs
    /\ chunk_output = Absent

\* The chunker is run again on the same document with the same settings;
\* again marks the chunks as those of a later run
ChunkAgain ==
    /\ chunk_input # Absent
    /\ chunk_output # Absent
    /\ chunk_output' = [chunks |-> GetChunkerChunk(chunk_input), again |-> TRUE]
    /\ UNCHANGED chunk_input

ScenarioNext == ChunkRun \/ ChunkAgain

(***************************************************************************)
(* Ingest (routes/content.py, rag/pipeline.py)                             *)
(***************************************************************************)
\* The number of uploaded documents
NumContents == 2
\* The most chunks of a document
MaxChunks == 2

Contents == 1..NumContents

\* str(e) of the errors of an ingest
MsgConversion == "Unsupported file type: application/octet-stream"
MsgStore == "vector store unavailable"
MsgMakedirs == "[Errno 13] Permission denied: 'temp_conversions'"

\* How the stages of one ingest end: RAGPipeline() raises, the conversion
\* raises, storing the chunks raises, or every stage succeeds
IngestOutcomes ==
    {[stage |-> "init", ok |-> FALSE, error |-> MsgMakedirs, chunks_count |-> 0],
     [stage |-> "converting", ok |-> FALSE, error |-> MsgConversion, chunks_count |-> 0],
     [stage |-> "embedding", ok |-> FALSE, error |-> MsgStore, chunks_count |-> 0]}
    \cup {[stage |-> "completing", ok |-> TRUE, error |-> "", chunks_count |-> n] :
            n \in 1..MaxChunks}

\* What RAGPipeline.process_document returns: the result of a successful
\* run, or the dictionary of its except branch
ProcessDocument(run) ==
    IF run.ok
    THEN [success |-> TRUE, chunks_count |-> run.chunks_count]
    ELSE [success |-> FALSE, error |-> run.error, stage |-> run.stage]

VARIABLES
    content,          \* the documents of db.content: status, error_message, chunks_count
    ingest            \* where process_content_background is for each document

ingestVars == <<content, ingest>>

\* create_content: ContentStatus defaults to processing
IngestInit ==
    /\ content = [d \in Contents |-> [status |-> "processing"]]
    /\ ingest = [d \in Contents |-> [at |-> "Queued"]]

\* update_one(..., {"$set": fields})
UpdateOne(d, fields) == content' = [content EXCEPT ![d] = DictMerge(@, fields)]

\* process_content_background up to its first update
IngestBegin(d) ==
    /\ ingest[d].at = "Queued"
    /\ UpdateOne(d, [status |-> "processing"])
    /\ ingest' = [ingest EXCEPT ![d] = [at |-> "Pipeline"]]

\* RAGPipeline() and pipeline.process_document(...)
IngestProcess(d, run) ==
    /\ ingest[d].at = "Pipeline"
    /\ ingest' = [ingest EXCEPT ![d] =
            IF run.stage = "init"
            THEN [at |-> "Except", e |-> run.error]
            ELSE [at |-> "Complete", result |-> ProcessDocument(run), outcome |-> run]]
    /\ UNCHANGED content

\* The update after process_document has returned
CompletedFields(result) ==
    [status |-> "completed", chunks_count |-> DictGet(result, "chunks_count", 0)]

IngestComplete(d) ==
    /\ ingest[d].at = "Complete"
    /\ UpdateOne(d, CompletedFields(ingest[d].result))
    /\ ingest' = [ingest EXCEPT ![d] = [at |-> "Done", outcome |-> ingest[d].outcome]]

\* The except branch of process_content_background
IngestExcept(d) ==
    /\ ingest[d].at = "Except"
    /\ UpdateOne(d, [status |-> "failed", error_message |-> ingest[d].e])
    /\ ingest' = [ingest EXCEPT ![d] =
            [at |-> "Done", outcome |-> CHOOSE o \in IngestOutcomes : o.stage = "init"]]

IngestNext ==
    \E d \in Contents :
        \/ IngestBegin(d)
        \/ \E run \in IngestOutcomes : IngestProcess(d, run)
        \/ IngestComplete(d)
        \/ IngestExcept(d)

(***************************************************************************)
(* Storing the chunks of a document (rag/pipeline.py stage 4,              *)
(* rag/vector_store.py)                                                    *)
(***************************************************************************)
\* The largest number of chunks of a document in the model
MaxStoredChunks == 12

\* batch_size of RAGPipeline.process_document
batch_size == 10

VARIABLES
    chunks_count,    \* len(chunks) of the document; its chunks are 0..chunks_count-1
    batch_start,     \* i of the loop over the batches in process_document
    batch_vectors,   \* vectors of the store_chunks call under way
    namespace,       \* the vectors the store holds in the namespace of the document
    store_stage      \* "chunked", "embedding", "completed" or "failed"

vecVars == <<chunks_count, batch_start, batch_vectors, namespace, store_stage>>

\* f"{content_id}_chunk_{i}"
VectorId(content_id, i) == <<content_id, "_chunk_", i>>

\* chunks[i:i+batch_size], as the positions of the chunks in the document
Batch(i) == [k \in 1..(IF i + batch_size <= chunks_count THEN batch_size ELSE chunks_count - i)
                |-> i + k - 1]

\* index.upsert of one vector: a vector with the same id is replaced
Upsert(stored, vec) == {v \in stored : v.id # vec.id} \cup {vec}

RECURSIVE UpsertVectors(_, _)
\* upsert_vectors(vectors, namespace)
UpsertVectors(stored, vectors) ==
    IF vectors = << >> THEN stored
    ELSE UpsertVectors(Upsert(stored, Head(vectors)), Tail(vectors))

\* A document of chunks_count chunks has been chunked
VecInit ==
    /\ chunks_count \in 0..MaxStoredChunks
    /\ batch_start = 0
    /\ batch_vectors = << >>
    /\ namespace = {}
    /\ store_stage = "chunked"

\* No document is being stored
VecInitNone ==
    /\ chunks_count = 0
    /\ batch_start = 0
    /\ batch_vectors = << >>
    /\ namespace = {}
    /\ store_stage = "chunked"

\* "for i in range(0, len(chunks), batch_size)": the loop begins, or ends at
\* once for a document without chunks
StoreBegin ==
    /\ store_stage = "chunked"
    /\ store_stage' = IF chunks_count = 0 THEN "completed" ELSE "embedding"
    /\ UNCHANGED <<chunks_count, batch_start, batch_vectors, namespace>>

\* store_chunks, one turn of "for i, chunk in enumerate(chunks)": the
\* embedding of the next chunk of the batch is generated and its vector
\* appended, with the id made from the chunk's position in the batch
EmbedChunk ==
    /\ store_stage = "embedding"
    /\ Len(batch_vectors) < Len(Batch(batch_start))
    /\ LET i == Len(batch_vectors)
       IN  batch_vectors' = Append(batch_vectors,
                                   [id |-> VectorId(Doc1, i),
                                    chunk |-> Batch(batch_start)[i + 1]])
    /\ UNCHANGED <<chunks_count, batch_start, namespace, store_stage>>

\* store_chunks: the vectors of the batch are upserted, and process_document
\* goes on with the next batch or leaves the loop
UpsertBatch ==
    /\ store_stage = "embedding"
    /\ Len(batch_vectors) = Len(Batch(batch_start))
    /\ namespace' = UpsertVectors(namespace, batch_vectors)
    /\ batch_vectors' = << >>
    /\ batch_start' = batch_start + batch_size
    /\ store_stage' = IF batch_start + batch_size < chunks_count
                      THEN "embedding" ELSE "completed"
    /\ UNCHANGED chunks_count

\* generate_embedding or upsert_vectors raises: process_document ends with
\* success False
StoreFails ==
    /\ store_stage = "embedding"
    /\ store_stage' = "failed"
    /\ UNCHANGED <<chunks_count, batch_start, batch_vectors, namespace>>

VecNext == StoreBegin \/ EmbedChunk \/ UpsertBatch \/ StoreFails

(***************************************************************************)
(* Specifications                                                          *)
(***************************************************************************)
\* The classifier, the chunker, the ingest task and the vector store
ragVars == <<clsVars, chunkVars, ingestVars, vecVars>>

vars == <<rlVars, ctorVars, cacheVars, keyVars, convVars, ragVars, orchVars>>

\* An enabled classifier, no chunking run, the uploaded documents
RagInit == ClsInitEnabled /\ ChunkInitNone /\ IngestInit /\ VecInitNone

Init == RLInit /\ CtorInit /\ CacheInit /\ KeyInit /\ ConvInitDefault /\ RagInit /\ OrchInit

InitFair == RLInitFair /\ CtorInit /\ CacheInit /\ KeyInit /\ ConvInitDefault /\ RagInit /\ OrchInit

\* One limiter, and a ConversationManager of any max_history
InitConv ==
    /\ RateLimiterInit(1, TestMaxRetries)
    /\ TasksInit
    /\ CtorInit
    /\ CacheInit /\ KeyInit /\ ConvInit /\ RagInit /\ OrchInit

\* One limiter and the manager of the ChatbotEngine
InitOne ==
    /\ RateLimiterInit(1, TestMaxRetries)
    /\ TasksInit
    /\ CtorInit
    /\ CacheInit /\ KeyInit /\ ConvInitDefault /\ OrchInit

\* Calls on one RateLimiter
Next == RLNext /\ UNCHANGED <<ctorVars, cacheVars, keyVars, convVars, ragVars, orchVars>>

Spec == Init /\ [][Next]_vars

\* Fair scheduling: the event loop runs every ready call, every operation
\* invocation terminates and every sleep ends
FairSpec ==
    /\ InitFair
    /\ [][Next]_vars
    /\ \A t \in Tasks : WF_vars(TaskStep(t) /\ UNCHANGED <<ctorVars, cacheVars, keyVars, convVars, ragVars, orchVars>>)

\* Calls on one RedisCacheManager
CacheSpec == Init /\ [][CacheNext /\ UNCHANGED <<rlVars, ctorVars, keyVars, convVars, ragVars, orchVars>>]_vars

\* Calls of _generate_cache_key
KeySpec == Init /\ [][KeyNext /\ UNCHANGED <<rlVars, ctorVars, cacheVars, convVars, ragVars, orchVars>>]_vars

\* Calls on one ConversationManager
ConvSpec == InitConv /\ [][ConvNext /\ UNCHANGED <<rlVars, ctorVars, cacheVars, keyVars, ragVars, orchVars>>]_vars

\* Calls on one QueryClassifier, enabled or not
InitCls == InitOne /\ ClsInit /\ ChunkInitNone /\ IngestInit /\ VecInitNone

ClsSpec ==
    /\ InitCls
    /\ [][ClsNext /\ UNCHANGED <<rlVars, ctorVars, cacheVars, keyVars, convVars, chunkVars, ingestVars, vecVars, orchVars>>]_vars

\* One chunking run of any document with any settings
InitChunk == InitOne /\ ClsInitEnabled /\ ChunkInit /\ IngestInit /\ VecInitNone

ChunkSpec ==
    /\ InitChunk
    /\ [][ChunkNext /\ UNCHANGED <<rlVars, ctorVars, cacheVars, keyVars, convVars, clsVars, ingestVars, vecVars, orchVars>>]_vars

\* The background tasks of the uploaded documents
InitIngest == InitOne /\ RagInit

IngestSpec ==
    /\ InitIngest
    /\ [][IngestNext /\ UNCHANGED <<rlVars, ctorVars, cacheVars, keyVars, convVars, clsVars, chunkVars, vecVars, orchVars>>]_vars

\* Heuristic chunking runs, and repeated runs, of three-paragraph documents
InitScenario == InitOne /\ ClsInitEnabled /\ ScenarioInit /\ IngestInit /\ VecInitNone

ScenarioSpec ==
    /\ InitScenario
    /\ [][ScenarioNext /\ UNCHANGED <<rlVars, ctorVars, cacheVars, keyVars, convVars, clsVars, ingestVars, vecVars, orchVars>>]_vars

\* The chunks of one document of any size are stored
InitVector == InitOne /\ ClsInitEnabled /\ ChunkInitNone /\ IngestInit /\ VecInit

VectorSpec ==
    /\ InitVector
    /\ [][VecNext /\ UNCHANGED <<rlVars, ctorVars, cacheVars, keyVars, convVars, clsVars, chunkVars, ingestVars, orchVars>>]_vars

\* Calls on one RateLimiter constructed with supplied arguments
InitCtor == CtorInitSupplied /\ CacheInit /\ KeyInit /\ ConvInitDefault /\ RagInit /\ OrchInit

CtorSpec ==
    /\ InitCtor
    /\ [][RLNext /\ UNCHANGED <<ctorVars, cacheVars, keyVars, convVars, ragVars, orchVars>>]_vars

\* Calls on one RateLimiter with cancellation of calls and reset_stats
InitLimiter == LimiterInit /\ CacheInit /\ KeyInit /\ ConvInitDefault /\ RagInit /\ OrchInit

LimiterSpec ==
    /\ InitLimiter
    /\ [][LimiterNext /\ UNCHANGED <<cacheVars, keyVars, convVars, ragVars, orchVars>>]_vars

\* Concurrent requests on one ChatbotEngine
OrchSpec == InitFair /\ [][OrchNext /\ UNCHANGED <<ctorVars, keyVars, ragVars>>]_vars

(***************************************************************************)
(* Properties of the retry executor                                        *)
(***************************************************************************)
Ended(t) == pc[t] \in {"returned", "raised"}

\* The operations executing inside execute_with_retry
InFlight == {t \in Tasks : pc[t] = "running"}

\* C1: in every reachable state the number of operations executing inside
\* execute_with_retry is at most max_concurrent.
C1_InFlightBounded == Cardinality(InFlight) <= max_concurrent

\* max_concurrent operations are in flight while another call queues
C1_Witness ==
    /\ Cardinality(InFlight) = max_concurrent
    /\ \E t \in Tasks : pc[t] = "waiting"

C3_ExhaustedRaises ==
    \A t \in Tasks :
        (Ended(t) /\ op_log[t].failed = op_log[t].invoked /\ op_log[t].retryable_only)
            => /\ pc[t] = "raised"
               /\ outcome[t] = [kind |-> "error", error |-> last_exception[t]]
               /\ counted[t] = [succ |-> 0, fail |-> 1, retr |-> 0]

\* With max_retries = 2 the operation raised a retryable error three times
C3_Witness ==
    \E t \in Tasks :
        /\ max_retries = 2
        /\ pc[t] = "raised"
        /\ op_log[t].failed = 3
        /\ op_log[t].retryable_only
        /\ failed_requests = 1

\* The errors the specification calls retryable: a provider rate-limit
\* error, or any error whose text matches a retryable marker
MarkedRetryable(e) == e.cls = "RateLimitError" \/ IsRetryableError(e)

\* C4: while attempts remain a failed invocation is retried if and only if
\* the error is a rate-limit error or its text matches a retryable marker;
\* every other error propagates with no retry.
C4_RetryIffMarked ==
    \A t \in Tasks :
        /\ pc[t] = "sleeping" => MarkedRetryable(last_exception[t])
        /\ (pc[t] = "raised" /\ attempt[t] < max_retries)
              => ~MarkedRetryable(outcome[t].error)

\* C5: an operation that raises a plain Exception("Transient error") on its
\* first invocation is invoked again when max_retries >= 1: the call never
\* ends with that error after a single invocation.
C5_TransientRetried ==
    \A t \in Tasks :
        ~ /\ pc[t] = "raised"
          /\ max_retries >= 1
          /\ op_log[t].invoked = 1
          /\ outcome[t].error = [cls |-> "Exception", msg |-> MsgTransient]

\* C6: a call is never ended for lack of a permit (a call that raised has
\* invoked its operation and raises the operation's error), and under fair
\* scheduling every submitted call eventually returns or raises.
C6_QueuedCallsComplete ==
    /\ [](\A t \in Tasks : pc[t] = "raised" =>
              /\ op_log[t].invoked >= 1
              /\ outcome[t] = [kind |-> "error", error |-> last_exception[t]])
    /\ \A t \in Tasks : (pc[t] # "idle") ~> Ended(t)

\* A call that queued behind max_concurrent operations in flight has been
\* handed the permit of a call that ended
C6_Witness ==
    \E t \in Tasks, u \in Tasks :
        /\ pc[t] = "granted"
        /\ op_log[t].invoked = 0
        /\ Ended(u)

\* The calls that are over: returned, raised, or cancelled
Over(t) == pc[t] \in {"returned", "raised", "cancelled"}

AllCountersZero ==
    /\ total_requests = 0
    /\ successful_requests = 0
    /\ failed_requests = 0
    /\ retried_requests = 0

\* C31: a call that is over has added 1 to exactly one of successful_requests
\* and failed_requests; whenever no call is in progress, and reset_stats was
\* never called while one was, total_requests = successful_requests +
\* failed_requests and retried_requests <= successful_requests; a step that
\* moves no call and changes a counter (reset_stats) leaves all four at 0.
C31_CountersBalance ==
    /\ [](\A t \in Tasks : Over(t) => counted[t].succ + counted[t].fail = 1)
    /\ []((InProgress = {} /\ ~reset_in_flight) =>
              /\ total_requests = successful_requests + failed_requests
              /\ retried_requests <= successful_requests)
    /\ [][(pc' = pc /\ total_requests' # total_requests) => AllCountersZero']_vars

\* C32: a RateLimiter constructed with explicit arguments has exactly the
\* supplied values as its attributes, and before its first call all its
\* counters are 0.
C32_SuppliedValuesUsed ==
    /\ "max_concurrent" \in DOMAIN limiter_kwargs =>
            max_concurrent = limiter_kwargs.max_concurrent
    /\ "max_retries" \in DOMAIN limiter_kwargs =>
            max_retries = limiter_kwargs.max_retries
    /\ "retry_delay" \in DOMAIN limiter_kwargs =>
            retry_delay = limiter_kwargs.retry_delay
    /\ "retry_backoff" \in DOMAIN limiter_kwargs =>
            retry_backoff = limiter_kwargs.retry_backoff
    /\ (\A t \in Tasks : pc[t] = "idle") => AllCountersZero

\* The calls that were handed the permit of a call that left the semaphore
\* and have not resumed yet
HandedOver == {t \in Tasks : pc[t] = "granted"}

\* C36 (as stated): a permit is held only while an operation invocation is
\* executing, so whenever no invocation is executing all max_concurrent
\* permits are available.
C36_PermitsFreeWhenIdle ==
    sem_value = max_concurrent - Cardinality(InFlight)

\* C36 (amended): a permit is held only by an executing invocation or by a
\* queued call that was handed it and has not resumed yet.
C36_PermitsConserved ==
    /\ sem_value = max_concurrent - Cardinality(InFlight) - Cardinality(HandedOver)
    /\ \A t \in Tasks : pc[t] = "granted" => \E i \in 1..Len(sem_waiters) : sem_waiters[i] = t

\* One call was cancelled during an invocation, another ended after an
\* invocation, and every permit is back
C36_Witness ==
    /\ \E t, u \in Tasks :
            /\ t # u
            /\ pc[t] = "cancelled" /\ op_log[t].invoked >= 1
            /\ pc[u] \in {"raised", "returned"} /\ attempt[u] >= 1
    /\ InFlight = {}
    /\ sem_value = max_concurrent

(***************************************************************************)
(* Properties of question answering                                        *)
(***************************************************************************)
\* The requests whose call to the provider is in flight: the classifier's
\* completion, the embedding of the question, a generation running inside
\* execute_with_retry, and a streamed completion that is still arriving
ProviderCallsInFlight ==
    {r \in Reqs : \/ stage[r] \in {"Classify", "Embed", "Streaming"}
                  \/ stage[r] = "Generate" /\ pc[r] = "running"}

\* C7: every call to the provider is made inside execute_with_retry, so at
\* most max_concurrent calls to the provider are in flight at any time.
C7_ProviderCallsBounded == Cardinality(ProviderCallsInFlight) <= max_concurrent

\* The request holds an answer that get_cached_answer returned
CacheHit(r) == answer_result[r] # Absent /\ "cache_key" \in DOMAIN answer_result[r]

SkippedOnHit == {"classifier", "retriever", "generator"}

\* C8 as stated: a request answered from the cache, buffered or streamed,
\* never invokes the classifier, the retriever or the generator, and once
\* Done it has returned the cached payload with cached = true and the total
\* elapsed time.
C8_HitReturnsAnnotated ==
    \A r \in Reqs :
        CacheHit(r) =>
            /\ effects[r] \cap SkippedOnHit = {}
            /\ stage[r] = "Done" =>
                  /\ response[r].payload # Absent
                  /\ "total_response_time_ms" \in DOMAIN response[r].payload
                  /\ response[r].payload.cached
                  /\ response[r].payload.answer = answer_result[r].answer

\* C8 amended: a request answered from the cache never invokes the
\* classifier, the retriever or the generator and never enters
\* execute_with_retry; it only replays and tracks analytics before Done,
\* or ends in the replay when its consumer stops consuming.
\* Buffered, it returns the cached payload with cached = true and the total
\* elapsed time, or the fixed error response with cached = false when the
\* analytics write failed. Streamed, it returns no payload: it yields the
\* cached answer text in pieces, followed by the fixed error message when
\* the analytics write failed.
C8_HitShortCircuits ==
    \A r \in Reqs :
        CacheHit(r) =>
            /\ effects[r] \cap SkippedOnHit = {}
            /\ pc[r] = "idle"
            /\ stage[r] \in {"Replay", "Done", "Closed"}
            /\ stage[r] = "Closed" => response[r].closed
            /\ (stage[r] = "Done" /\ ~request[r].stream) =>
                  \/ /\ "total_response_time_ms" \in DOMAIN response[r].payload
                     /\ response[r].payload.total_response_time_ms = ResponseTimeMs
                     /\ response[r].payload.cached
                     /\ response[r].payload.answer = answer_result[r].answer
                     /\ response[r].payload.cache_key = answer_result[r].cache_key
                  \/ response[r].payload = EngineError(BackendErrorText)
            /\ request[r].stream =>
                  /\ response[r].payload = Absent
                  /\ stage[r] \in {"Replay", "Closed"} =>
                        \E n \in 0..Len(answer_result[r].answer) :
                            Concat(response[r].chunks) = SubSeq(answer_result[r].answer, 1, n)
                  /\ stage[r] = "Done" =>
                        \/ Concat(response[r].chunks) = answer_result[r].answer
                        \/ Concat(response[r].chunks) =
                              answer_result[r].answer \o EngineErrorMessage

\* A buffered request was answered from the entry that the other request,
\* asking the same question in another spelling, had generated and cached
C8_Witness ==
    \E r \in Reqs :
        /\ CacheHit(r)
        /\ stage[r] = "Done"
        /\ ~request[r].stream
        /\ response[r].payload.cached
        /\ response[r].payload.answer = AnswerOne
        /\ effects[r] = {"analytics"}

\* C13: a cache lookup that finds the store unreachable, failing or disabled
\* returns absent and the request goes on to classification with nothing
\* returned or yielded; a cache write in the same situation changes nothing
\* and the request goes on with its generated answer: to Persist when
\* buffered, through add_turn and analytics to Done when streamed.
C13_FailOpen ==
    [][\A r \in Reqs :
        /\ (stage[r] = "CacheCheck" /\ stage'[r] # "CacheCheck" /\ ~last_call'.reached)
              => /\ last_call'.op = "get"
                 /\ last_call'.result = Absent
                 /\ stage'[r] = "Classify"
                 /\ "classifier" \in effects'[r]
                 /\ response'[r] = response[r]
        /\ ("cache_store" \in effects'[r] \ effects[r] /\ ~last_call'.reached)
              => /\ last_call'.op = "put"
                 /\ redis_store' = redis_store
                 /\ IF stage[r] = "Generate"
                    THEN /\ stage'[r] = "Persist"
                         /\ answer_result'[r] = AnswerResult(AnswerOne)
                    ELSE /\ stage'[r] = "Done"
                         /\ {"add_turn", "analytics"} \subseteq effects'[r]]_vars

\* A buffered request with use_cache found the store unreachable, both at
\* its lookup and at its write, and returned a generated answer
C13_Witness ==
    \E r \in Reqs :
        /\ request[r].use_cache
        /\ ~request[r].stream
        /\ ~cache_enabled
        /\ redis_store = {}
        /\ {"classifier", "retriever", "generator", "cache_store"} \subseteq effects[r]
        /\ stage[r] = "Done"
        /\ response[r].payload.answer = AnswerOne

\* The answers a normally completed generation produces
GeneratedAnswers == {AnswerOne}

\* C14: in buffered and in streamed mode, every entry of the cache holds an
\* answer that a normally completed generation produced: a rejection
\* message, the canned no-context message or an error message is never
\* stored, so that no later hit returns one of them.
C14_OnlyGeneratedAnswersCached ==
    \A e \in redis_store : JsonLoads(e.value).answer \in GeneratedAnswers

\* C15: a request adds a turn to the conversation window only when the
\* model generated an answer in this request: never on a cache hit, never
\* on a rejection, never for the canned answer of an empty retrieval and
\* never for a failed generation; so every turn of every window holds a
\* generated answer.
C15_TurnOnlyForGeneratedAnswer ==
    /\ \A r \in Reqs :
          "add_turn" \in effects[r]
             => /\ "generator" \in effects[r]
                /\ ~CacheHit(r)
                /\ answer_result[r].answer \in GeneratedAnswers
    /\ \A k \in DOMAIN conversations : \A i \in 1..Len(conversations[k]) :
          conversations[k][i].answer \in GeneratedAnswers

\* The request has its classification: the classifier's call has returned
Classified(r) == "classifier" \in effects[r] /\ stage[r] # "Classify"

\* C16: when the classifier reports is_question = false the request is
\* answered with the fixed guidance message, and when it reports
\* is_question = true and is_relevant = false with the fixed scope message;
\* in both cases, buffered or streamed, the request is Done without
\* retrieval or generation and its response is not an error response.
C16_RejectionsAnswered ==
    \A r \in Reqs :
        LET c == classification[r]
            message == IF ~c.is_question THEN GuidanceMessage ELSE ScopeMessage
        IN  (Classified(r) /\ (~c.is_question \/ (c.is_question /\ ~c.is_relevant)))
               => /\ stage[r] = "Done"
                  /\ effects[r] \cap {"retriever", "generator"} = {}
                  /\ IF request[r].stream
                     THEN /\ response[r].chunks = <<message>>
                          /\ response[r].payload = Absent
                     ELSE /\ response[r].payload.answer = message
                          /\ "error" \notin DOMAIN response[r].payload
                          /\ response[r].chunks = << >>

\* A streamed request was rejected as not a question and a buffered one as
\* off topic
C16_Witness ==
    \E r1 \in Reqs, r2 \in Reqs :
        /\ stage[r1] = "Done" /\ stage[r2] = "Done"
        /\ request[r1].stream /\ ~request[r2].stream
        /\ Classified(r1) /\ classification[r1] = ClassStatement
        /\ Classified(r2) /\ classification[r2] = ClassOffTopic
        /\ response[r1].chunks = <<GuidanceMessage>>
        /\ response[r2].payload.answer = ScopeMessage

\* The request writes the cache, or adds its turn, in this step
StoresInStep(r) ==
    (effects'[r] \ effects[r]) \cap {"cache_store", "add_turn"} # {}

\* C17: a streamed request writes the cache and adds its turn only after
\* its stream is over, that is in the step that follows the last increment,
\* and the text it stores is full_answer, which is the concatenation, in
\* order, of every increment yielded to the consumer.
C17_StoresAccumulatedAfterStream ==
    [][\A r \in Reqs :
        (request[r].stream /\ StoresInStep(r))
           => /\ stage[r] = "Persist"
              /\ response[r].chunks # << >>
              /\ answer_result[r].answer = Concat(response[r].chunks)
              /\ "add_turn" \in effects'[r]
              /\ conv_log' = Append(conv_log,
                    ConvCall("add_turn", Doc1, UserOne,
                       ConversationTurn(request[r].question, Concat(response[r].chunks))))
              /\ "cache_store" \in effects'[r]
                    => /\ last_call'.op = "put"
                       /\ last_call'.data.answer = Concat(response[r].chunks)]_vars

\* A streamed request has yielded the increments of a generated answer one
\* by one and has stored their concatenation in the cache and in the window
C17_Witness ==
    \E r \in Reqs :
        /\ request[r].stream
        /\ stage[r] = "Done"
        /\ response[r].chunks = StreamIncrements
        /\ Len(StreamIncrements) > 1
        /\ {"cache_store", "add_turn"} \subseteq effects[r]
        /\ \E e \in redis_store : JsonLoads(e.value).answer = Concat(StreamIncrements)
        /\ \E i \in 1..Len(conv_log) : conv_log[i].turn.answer = Concat(StreamIncrements)

FixedSizePieces(chunks) ==
    \A i \in 1..Len(chunks) :
        /\ Len(chunks[i]) <= ReplayChunkSize
        /\ Len(chunks[i]) >= 1
        /\ i < Len(chunks) => Len(chunks[i]) = ReplayChunkSize

\* C19: a streamed request answered from the cache replays the cached
\* answer in pieces of at most 10 characters, all but the last of exactly
\* 10, whose concatenation in order is the cached answer, and does not
\* invoke the generator. The pieces are the chunks yielded during the
\* replay; the message of the except clause, yielded when the analytics
\* write after the replay fails, is not one of them.
C19_HitReplayedInPieces ==
    \A r \in Reqs :
        (request[r].stream /\ CacheHit(r))
           => LET answer == answer_result[r].answer
                  chunks == response[r].chunks
                  n == Len(chunks)
              IN  /\ "generator" \notin effects[r]
                  /\ stage[r] \in {"Replay", "Closed"} =>
                        /\ FixedSizePieces(chunks)
                        /\ Len(Concat(chunks)) <= Len(answer)
                        /\ Concat(chunks) = SubSeq(answer, 1, Len(Concat(chunks)))
                        /\ (n > 0 /\ Len(chunks[n]) < ReplayChunkSize)
                              => Concat(chunks) = answer
                  /\ stage[r] = "Done" =>
                        \/ /\ FixedSizePieces(chunks)
                           /\ Concat(chunks) = answer
                        \/ /\ n > 0
                           /\ chunks[n] = EngineErrorMessage
                           /\ FixedSizePieces(SubSeq(chunks, 1, n - 1))
                           /\ Concat(SubSeq(chunks, 1, n - 1)) = answer

\* A streamed hit has replayed a cached answer of 16 characters as a piece
\* of 10 and a piece of 6
C19_Witness ==
    \E r \in Reqs :
        /\ request[r].stream
        /\ CacheHit(r)
        /\ stage[r] = "Done"
        /\ answer_result[r].answer = AnswerOne
        /\ response[r].chunks = <<SubSeq(AnswerOne, 1, 10), SubSeq(AnswerOne, 11, 16)>>

\* Request r is at its cache lookup, and the latest call on the cache is the
\* cache_answer of another request, which the store answered
LooksUpAfterStore(r) ==
    /\ stage[r] = "CacheCheck"
    /\ last_call.op = "put"
    /\ last_call.reached
    /\ \E s \in Reqs \ {r} :
          /\ "cache_store" \in effects[s]
          /\ request[s].use_cache
          /\ last_call.question = request[s].question

\* C35: when a request with use_cache, buffered or streamed, has stored its
\* answer in the cache, the lookup of a later request for the same content
\* whose question differs in letter case and surrounding whitespace at most,
\* answered by the store, is a hit with the stored answer, and the request
\* that hit never invokes the model.
C35_LaterRequestHits ==
    /\ [][\A r \in Reqs :
            (LooksUpAfterStore(r) /\ stage'[r] # "CacheCheck" /\ last_call'.reached)
               => /\ stage'[r] \in {"Replay", "Done"}
                  /\ answer_result'[r] # Absent
                  /\ answer_result'[r].cached
                  /\ answer_result'[r].answer = last_call.data.answer]_vars
    /\ [](\A r \in Reqs : CacheHit(r) => "generator" \notin effects[r])

\* A buffered request hit the entry that a streamed request with the other
\* spelling of the question stored, and a streamed one the entry of a buffered
C35_Witness ==
    \E r, s \in Reqs :
        /\ r # s
        /\ request[r].question # request[s].question
        /\ "cache_store" \in effects[s]
        /\ "generator" \in effects[s]
        /\ CacheHit(r)
        /\ stage[r] = "Done"
        /\ request[r].stream # request[s].stream
        /\ answer_result[r].answer = answer_result[s].answer

\* C39: a request whose classification is the default that classify_query
\* returns when it fails (is_question, is_relevant, confidence 0.5) is not
\* rejected but goes on to retrieval and generation; its question is never
\* stored with save_question, its analytics event carries no question id,
\* and the question_id of its response is None.
C39_DefaultAnsweredNotStored ==
    \A r \in Reqs :
        classification[r] = ClassDefault =>
            /\ "retriever" \in effects[r]
            /\ stage[r] \in {"Embed", "Generate", "Streaming", "Persist", "Done", "Closed"}
            /\ "save_question" \notin effects[r]
            /\ "analytics_question_id" \notin effects[r]
            /\ (response[r].payload # Absent /\ "question_id" \in DOMAIN response[r].payload)
                  => response[r].payload.question_id = "None"

\* A request with the default classification was answered by the provider
\* and tracked its analytics event
C39_Witness ==
    \E r \in Reqs :
        /\ classification[r] = ClassDefault
        /\ stage[r] = "Done"
        /\ {"generator", "add_turn", "analytics"} \subseteq effects[r]
        /\ response[r].payload # Absent
        /\ "question_id" \in DOMAIN response[r].payload
        /\ response[r].payload.answer = AnswerOne

(***************************************************************************)
(* Properties of the answer cache                                          *)
(***************************************************************************)
\* Whether the call recorded in put and the call recorded in get name the
\* same question, content and extra parameters
SameEntry(put, get) ==
    /\ get.question = put.question
    /\ get.content_id = put.content_id
    /\ get.kwargs = put.kwargs

\* C9: a get_cached_answer(q, ns, params) that directly follows a
\* cache_answer(q, ns, params, result), both answered by the store and with
\* no expiry in between, returns result with cached = true and the entry's
\* own key added, for every question, content id and parameter set.
C9_RoundTrip ==
    [][(/\ last_call.op = "put" /\ last_call.reached
        /\ last_call'.op = "get" /\ last_call'.reached
        /\ SameEntry(last_call, last_call'))
          => last_call'.result =
                DictMerge(last_call.data,
                          [cached |-> TRUE,
                           cache_key |-> GenerateCacheKey(last_call.question,
                                                          last_call.content_id,
                                                          last_call.kwargs)])]_vars

\* A get answered from an entry that a cache_answer wrote
C9_Witness ==
    /\ last_call.op = "get"
    /\ last_call.reached
    /\ last_call.result # Absent
    /\ last_call.result.cached
    /\ last_call.result.answer = AnswerOne
    /\ last_call.kwargs = CallerKwargs

\* C10: a get_cached_answer(q, ns, params) that directly follows a completed
\* invalidate_content_cache(ns) returns absent, whatever was cached under ns
\* before the invalidation.
C10_InvalidatedAbsent ==
    [][(/\ last_call.op = "invalidate" /\ last_call.reached
        /\ last_call'.op = "get"
        /\ last_call'.content_id = last_call.content_id)
          => last_call'.result = Absent]_vars

\* C33: a get_cached_answer or cache_answer that is called with caching
\* enabled and does not get an answer from the store, at first use or after
\* an earlier successful connection, leaves caching disabled; once caching is
\* disabled it stays disabled, so no later get or put contacts the store.
C33_DisabledOnceUnreachable ==
    [][/\ (/\ cache_enabled
           /\ last_call'.op \in {"get", "put"}
           /\ ~last_call'.reached) => ~cache_enabled'
       /\ ~cache_enabled => ~cache_enabled']_vars

(***************************************************************************)
(* Properties of the conversation windows                                  *)
(***************************************************************************)
\* The call is add_turn for the pair p
IsAddTurnFor(call, p) ==
    call.op = "add_turn" /\ call.content_id = p[1] /\ call.user_id = p[2]

\* The number of calls at the end of conv_log that are add_turn for p
TurnsAdded(p) ==
    LET last == Len(conv_log)
    IN  CHOOSE n \in 0..last :
           /\ \A i \in (last - n + 1)..last : IsAddTurnFor(conv_log[i], p)
           /\ n < last => ~IsAddTurnFor(conv_log[last - n], p)

\* Those calls are all the calls made, or follow clear_history for p
StartsEmpty(p) ==
    LET before == Len(conv_log) - TurnsAdded(p)
    IN  \/ before = 0
        \/ /\ conv_log[before].op = "clear_history"
           /\ conv_log[before].content_id = p[1]
           /\ conv_log[before].user_id = p[2]

Min(a, b) == IF a < b THEN a ELSE b

\* C20: after n add_turn calls for one (content_id, user_id) pair, made on
\* a new manager or after clear_history for the pair, the window of the
\* pair holds exactly min(n, max_history) turns: the most recently added
\* ones, in the order they were added. After clear_history (n = 0) the key
\* is gone and the history is empty.
C20_WindowHoldsLatestTurns ==
    \A p \in ConvPairs :
        StartsEmpty(p)
           => LET n == TurnsAdded(p)
                  kept == Min(n, max_history)
                  last == Len(conv_log)
                  history == GetHistory(p[1], p[2], 0)
              IN  /\ Len(history) = kept
                  /\ \A i \in 1..kept : history[i] = conv_log[last - kept + i].turn
                  /\ n = 0 => ConversationKey(p[1], p[2]) \notin DOMAIN conversations

\* More turns than max_history were added for one pair, the last two of
\* them different, and the window holds the latest max_history of them
C20_Witness ==
    \E p \in ConvPairs :
        /\ StartsEmpty(p)
        /\ TurnsAdded(p) > max_history
        /\ max_history > 1
        /\ conv_log[Len(conv_log)].turn # conv_log[Len(conv_log) - 1].turn
        /\ Len(GetHistory(p[1], p[2], 0)) = max_history

\* C21: add_turn, clear_history and load_from_database for one
\* (content_id, user_id) pair leave the history of every other pair as it
\* was: a turn added for one pair is never returned by get_history of
\* another pair.
C21_OtherPairsUnchanged ==
    [][\A q \in ConvPairs :
        LET call == conv_log'[Len(conv_log')]
        IN  (/\ Len(conv_log') = Len(conv_log) + 1
             /\ call.op \in {"add_turn", "clear_history", "load_from_database"}
             /\ <<call.content_id, call.user_id>> # q)
               => GetHistory(q[1], q[2], 0)' = GetHistory(q[1], q[2], 0)]_vars

\* C37: after any sequence of add_turn, clear_history, clear_all and
\* load_from_database calls, with any limit, the window of every key holds at
\* most max_history turns.
C37_WindowsBounded ==
    \A key \in DOMAIN conversations : Len(conversations[key]) <= max_history

\* The requests that have called add_turn
TurnAdders == {r \in Reqs : "add_turn" \in effects[r]}

\* The turn request r adds
TurnOf(r) == ConversationTurn(request[r].question, answer_result[r].answer)

Holds(d, key, value) == key \in DOMAIN d /\ d[key] = value

\* C22: should_store_question is true exactly when is_question is true,
\* is_relevant is true and confidence is at least 0.6: false at 0.59, true
\* at exactly 0.60, and false when a flag is false or missing.
C22_StoredIffConfidentQuestion ==
    (cls_call # Absent /\ cls_call.op = "should_store_question")
       => LET c == cls_call.classification
          IN  /\ cls_call.result <=>
                    /\ Holds(c, "is_question", TRUE)
                    /\ Holds(c, "is_relevant", TRUE)
                    /\ "confidence" \in DOMAIN c
                    /\ c["confidence"] >= 60
              /\ Holds(c, "confidence", 59) => ~cls_call.result
              /\ (/\ Holds(c, "is_question", TRUE)
                  /\ Holds(c, "is_relevant", TRUE)
                  /\ Holds(c, "confidence", 60)) => cls_call.result

\* should_store_question was called with both flags true and confidence
\* 0.60 and returned true
C22_Witness ==
    /\ cls_call # Absent
    /\ cls_call.op = "should_store_question"
    /\ cls_call.classification =
          [is_question |-> TRUE, is_relevant |-> TRUE, confidence |-> 60]
    /\ cls_call.result

\* The text holds no JSON document
NoJson(text) == \A i \in 1..Len(text) : text[i].seg # "json"

\* The text holds no code fence and is not one JSON document with
\* whitespace around it
PlainUndecodable(text) ==
    /\ \A i \in 1..Len(text) : text[i] \notin {SegFence, SegFenceJson}
    /\ Cardinality({i \in 1..Len(text) : text[i] # SegSpace}) # 1

\* C23: classify_query never raises; when the provider call fails, when
\* the message has no content and when the output, after the code-fence
\* wrappers are removed, is no JSON document, it returns the permissive
\* default is_question = true, is_relevant = true, confidence = 0.5. What it
\* returns is that default or a document the provider sent.
C23_ClassifierNeverRaises ==
    (cls_call # Absent /\ cls_call.op = "classify_query" /\ cls_enabled)
       => LET reply == cls_call.reply
              result == cls_call.result
              default == [is_question |-> TRUE, is_relevant |-> TRUE, confidence |-> 50]
          IN  /\ "exception" \notin DOMAIN result
              /\ reply.kind \in {"raises", "no_content"} => result = default
              /\ reply.kind = "content" =>
                    /\ (NoJson(reply.content) \/ PlainUndecodable(reply.content))
                          => result = default
                    /\ \/ result = default
                       \/ \E i \in 1..Len(reply.content) :
                             /\ reply.content[i].seg = "json"
                             /\ reply.content[i].value = result

\* The provider answered with a fenced block that holds no JSON, and
\* classify_query returned the default
C23_Witness ==
    /\ cls_call # Absent
    /\ cls_call.op = "classify_query"
    /\ cls_enabled
    /\ cls_call.reply = [kind |-> "content", content |-> <<SegFenceJson, SegProse, SegFence>>]
    /\ cls_call.result = ClassDefault

(***************************************************************************)
(* Properties of the cache key                                             *)
(***************************************************************************)
AllWhitespace(s) == \A i \in 1..Len(s) : s[i] \in WhitespaceChars

\* The same characters, letter case apart
SameUpToCase(a, b) ==
    /\ Len(a) = Len(b)
    /\ \A i \in 1..Len(a) : LowerChar(a[i]) = LowerChar(b[i])

\* a and b are the same text, letter case apart, between leading and
\* trailing whitespace
SameUpToCaseAndOuterSpace(a, b) ==
    \E i \in 1..(Len(a) + 1) :
        /\ AllWhitespace(SubSeq(a, 1, i - 1))
        /\ \E j \in (i - 1)..Len(a) :
              /\ AllWhitespace(SubSeq(a, j + 1, Len(a)))
              /\ \E k \in 1..(Len(b) + 1) :
                    /\ AllWhitespace(SubSeq(b, 1, k - 1))
                    /\ k + j - i <= Len(b)
                    /\ AllWhitespace(SubSeq(b, k + j - i + 1, Len(b)))
                    /\ SameUpToCase(SubSeq(a, i, j), SubSeq(b, k, k + j - i))

\* The characters of s that are not whitespace
NonSpace(s) == SelectSeq(s, LAMBDA c : c \notin WhitespaceChars)

\* a and b differ in nothing but letter case and whitespace
SameUpToCaseAndSpace(a, b) == SameUpToCase(NonSpace(a), NonSpace(b))

\* The same parameters, in whatever order
SameItems(kw1, kw2) ==
    /\ Len(kw1) = Len(kw2)
    /\ {kw1[i] : i \in 1..Len(kw1)} = {kw2[i] : i \in 1..Len(kw2)}

TwoKeyCalls == Len(key_calls) = 2

\* C11 as stated: two calls for the same content whose questions differ
\* only in letter case or whitespace, and whose parameters are the same in
\* whatever order, yield the same key.
C11_KeyIgnoresCaseAndSpace ==
    TwoKeyCalls =>
        ((/\ key_calls[1].content_id = key_calls[2].content_id
          /\ SameUpToCaseAndSpace(key_calls[1].question, key_calls[2].question)
          /\ SameItems(key_calls[1].kwargs, key_calls[2].kwargs))
            => key_calls[1].key = key_calls[2].key)

\* C11 amended: two calls for the same content whose questions differ only
\* in letter case or in leading and trailing whitespace, and whose
\* parameters are the same in whatever order, yield the same key.
C11_KeyIgnoresCaseAndOuterSpace ==
    TwoKeyCalls =>
        ((/\ key_calls[1].content_id = key_calls[2].content_id
          /\ SameUpToCaseAndOuterSpace(key_calls[1].question, key_calls[2].question)
          /\ SameItems(key_calls[1].kwargs, key_calls[2].kwargs))
            => key_calls[1].key = key_calls[2].key)

\* "What is X?" with top_k, model and " what is x? " with model, top_k got
\* the same key
C11_Witness ==
    /\ TwoKeyCalls
    /\ key_calls[1].question = QuestionPlain
    /\ key_calls[2].question = QuestionSpaced
    /\ key_calls[1].kwargs = CallerKwargs
    /\ key_calls[2].kwargs = ReorderedKwargs
    /\ SameUpToCaseAndOuterSpace(key_calls[1].question, key_calls[2].question)
    /\ key_calls[1].content_id = key_calls[2].content_id
    /\ key_calls[1].key = key_calls[2].key

\* What the key is meant to depend on: the content, the normalized
\* question and the parameters as an unordered map
KeyTriple(call) ==
    [content_id |-> call.content_id,
     question |-> Strip(Lower(call.question)),
     kwargs |-> {call.kwargs[i] : i \in 1..Len(call.kwargs)}]

\* C12: two calls that differ in the content, in the normalized question or
\* in a parameter yield different keys (no two digests of the model's
\* table are equal, so keys differ exactly when the hashed strings differ).
C12_KeySeparatesTriples ==
    TwoKeyCalls =>
        (KeyTriple(key_calls[1]) # KeyTriple(key_calls[2])
            => key_calls[1].key # key_calls[2].key)


\* str(e) of the errors raised by the provider and by the backends
RawErrorTexts == ErrorTexts \cup {BackendErrorText}

\* C30: whatever fails, the response delivered by ask_question or
\* ask_question_stream holds no raw error text: not in the error field of
\* the returned payload, and not in a yielded piece.
C30_NoRawErrorText ==
    \A r \in Reqs :
        /\ response[r].payload # Absent =>
              DictGet(response[r].payload, "error", << >>) \notin RawErrorTexts
        /\ \A i \in 1..Len(response[r].chunks) :
              response[r].chunks[i] \notin RawErrorTexts

(***************************************************************************)
(* Properties of chunking                                                  *)
(***************************************************************************)
Chunked == chunk_output # Absent

HasIndex(chunk) == "chunk_index" \in DOMAIN chunk.metadata

\* C24: the chunks returned by one chunk() run, of any strategy, carry the
\* chunk_index values 0, 1, ..., n-1 in list order.
C24_IndexesContiguous ==
    Chunked =>
        \A i \in 1..Len(chunk_output.chunks) :
            /\ HasIndex(chunk_output.chunks[i])
            /\ chunk_output.chunks[i].metadata.chunk_index = i - 1

\* Where the text of a chunk begins in the document: the number of its
\* first sentence, 0 for a text of the provider
Begins(chunk) == chunk.text[1][1].id

\* C25: the chunks returned by chunk() are in document order: for i < j the
\* text of chunk j does not begin earlier in the document than the text of
\* chunk i.
C25_DocumentOrder ==
    Chunked =>
        \A i, j \in 1..Len(chunk_output.chunks) :
            (/\ i < j
             /\ Begins(chunk_output.chunks[i]) # 0
             /\ Begins(chunk_output.chunks[j]) # 0)
            => Begins(chunk_output.chunks[i]) <= Begins(chunk_output.chunks[j])

Heuristic == chunk_input # Absent /\ chunk_input.strategy = "heuristic"

\* C26: every non-final chunk of the heuristic strategy has at most
\* chunk_size + overlap words.
C26_NonFinalChunkBounded ==
    (Chunked /\ Heuristic) =>
        \A i \in 1..(Len(chunk_output.chunks) - 1) :
            chunk_output.chunks[i].word_count
                <= chunk_input.chunk_size + chunk_input.overlap

\* The sentences of a text in order
Sentences(text) == JoinTexts(text)

IsPrefix(a, b) == Len(a) <= Len(b) /\ SubSeq(b, 1, Len(a)) = a

\* The overlap-bounded tail of a chunk: its trailing sentences in a sentence
\* split, else its trailing paragraphs, of at most overlap words in total
OverlapTail(chunk, overlap) ==
    IF chunk.metadata.chunking_strategy = "heuristic_sentence"
    THEN KeptItems(Sentences(chunk.text),
            TailFit([k \in 1..Len(Sentences(chunk.text)) |-> Sentences(chunk.text)[k].words],
                    overlap))
    ELSE Sentences(KeptItems(chunk.text,
            TailFit([k \in 1..Len(chunk.text) |-> SentenceWords(chunk.text[k])], overlap)))

\* C27: with overlap > 0, the overlap-bounded tail of every chunk of the
\* heuristic strategy is the head of the next chunk.
C27_TailIsNextHead ==
    (Chunked /\ Heuristic /\ chunk_input.overlap > 0) =>
        \A i \in 1..(Len(chunk_output.chunks) - 1) :
            IsPrefix(OverlapTail(chunk_output.chunks[i], chunk_input.overlap),
                     Sentences(chunk_output.chunks[i + 1].text))

\* The base chunks of a run of the intelligent strategy
BaseChunks ==
    SemanticChunk(chunk_input.sections, chunk_input.chunk_size, chunk_input.overlap)

\* A run of the intelligent strategy in which the split request of the
\* oversized base chunk i (counted from 0) has failed
SplitFailedAt(i) ==
    /\ Chunked
    /\ chunk_input.strategy = "intelligent"
    /\ chunk_input.failing = {i}
    /\ WordCount(JoinTexts(chunk_input.sections)) > chunk_input.chunk_size
    /\ i < Len(BaseChunks)
    /\ Oversized(BaseChunks[i + 1], chunk_input.chunk_size)

\* What the run derives from each base chunk, and what it would derive if
\* no request failed
PartsOfRun ==
    IntelligentParts(chunk_input.sections, chunk_input.chunk_size, chunk_input.overlap,
                     chunk_input.reply, chunk_input.failing)

PartsUnfailed ==
    IntelligentParts(chunk_input.sections, chunk_input.chunk_size, chunk_input.overlap,
                     chunk_input.reply, {})

\* chunk() has returned the chunks of all base chunks, those of base chunk i
\* being the ones of the heuristic strategy on its text
FallbackIsLocal(i) ==
    /\ chunk_output.chunks = JoinTexts(PartsOfRun)
    /\ Len(PartsOfRun) = Len(BaseChunks)
    /\ PartsOfRun[i + 1] =
          HeuristicChunk(BaseChunks[i + 1].text, chunk_input.chunk_size, chunk_input.overlap)
    /\ PartsOfRun[i + 1] # << >>

\* Two chunks that differ in chunk_index at most
SameButIndex(a, b) ==
    /\ a.text = b.text
    /\ a.word_count = b.word_count
    /\ DOMAIN a.metadata = DOMAIN b.metadata
    /\ \A k \in DOMAIN a.metadata \ {"chunk_index"} : a.metadata[k] = b.metadata[k]

\* The chunks before part j of a list of parts
ChunksBefore(parts, j) == Len(JoinTexts(SubSeq(parts, 1, j - 1)))

\* C28 (as stated): if the split request of one oversized chunk fails,
\* chunk() still returns for the whole document, the heuristic strategy is
\* used for that chunk only, and the chunks derived from every other base
\* chunk are the same as if the request had not failed.
C28_OtherChunksSame ==
    \A i \in 0..MaxParagraphs :
        SplitFailedAt(i) =>
            /\ FallbackIsLocal(i)
            /\ \A j \in 1..Len(PartsOfRun) : j # i + 1 => PartsOfRun[j] = PartsUnfailed[j]

\* C28 (amended): the chunks derived from every other base chunk are the
\* same as if the request had not failed, except that the chunk_index of a
\* chunk that was not split is its position in the returned list.
C28_OtherChunksSameButIndex ==
    \A i \in 0..MaxParagraphs :
        SplitFailedAt(i) =>
            /\ FallbackIsLocal(i)
            /\ \A j \in 1..Len(PartsOfRun) :
                  j # i + 1 =>
                    /\ Len(PartsOfRun[j]) = Len(PartsUnfailed[j])
                    /\ \A k \in 1..Len(PartsOfRun[j]) :
                          /\ SameButIndex(PartsOfRun[j][k], PartsUnfailed[j][k])
                          /\ \/ PartsOfRun[j][k] = PartsUnfailed[j][k]
                             \/ /\ ~Oversized(BaseChunks[j], chunk_input.chunk_size)
                                /\ PartsOfRun[j][k].metadata.chunk_index
                                      = ChunksBefore(PartsOfRun, j)

\* A failed split of a base chunk that is followed by another base chunk
C28_Witness ==
    \E i \in 0..MaxParagraphs : SplitFailedAt(i) /\ i + 1 < Len(BaseChunks)

\* The document of 400, 500 and 300 words with chunk_size 800 and overlap 150
ScenarioInput ==
    ChunkerInput(ThreeParagraphs(400, 500, 300), "heuristic", CHUNK_SIZE, CHUNK_OVERLAP,
                 <<60, 60>>, {})

\* Every chunk has at most chunk_size words, and the first paragraph of the
\* next chunk would have taken it beyond chunk_size
GreedyParagraphs ==
    LET chunks == chunk_output.chunks
    IN  \A i \in 1..Len(chunks) :
            /\ chunks[i].word_count <= chunk_input.chunk_size
            /\ i < Len(chunks) =>
                  chunks[i].word_count + SentenceWords(chunks[i + 1].text[1])
                      > chunk_input.chunk_size

IngestEnded(d) == ingest[d].at = "Done"

\* C29: an ingest whose conversion (or any other stage) fails ends with the
\* status failed and the error message attached; the status is completed
\* only after a successful ingest, and is processing until the ingest ends.
C29_FailedIngestEndsFailed ==
    \A d \in Contents :
        /\ ~IngestEnded(d) => content[d].status = "processing"
        /\ IngestEnded(d) =>
              IF ingest[d].outcome.ok
              THEN content[d].status = "completed"
              ELSE /\ content[d].status = "failed"
                   /\ DictGet(content[d], "error_message", "") = ingest[d].outcome.error


(***************************************************************************)
(* Properties of storing the chunks                                        *)
(***************************************************************************)
\* C34: after the chunks of a document with n chunks were stored
\* successfully, the namespace of the document holds exactly n vectors, one
\* for each chunk and no two with the same id.
C34_OneVectorPerChunk ==
    store_stage = "completed" =>
        /\ Cardinality(namespace) = chunks_count
        /\ \A c \in 0..(chunks_count - 1) : \E v \in namespace : v.chunk = c
        /\ \A v, w \in namespace : v.id = w.id => v = w

====
